---- MODULE Spec2Model ----
(***************************************************************************)
(* Model of the tax computation engine of tax_assistant: the federal and   *)
(* Louisiana tax calculators, the depreciation calculator and the asset    *)
(* manager.                                                                *)
(*                                                                         *)
(* Amounts.  The program computes with Python floats.  The model computes  *)
(* with exact decimal fixed-point numbers: an amount is a tuple of NL      *)
(* limbs in base BASE, least significant first, in BASE-complement (the    *)
(* top limb >= BASE/2 marks a negative amount), counting units of          *)
(* BASE^(-FracLimbs) dollars.  Every rate of the program is a decimal      *)
(* literal (or 1/n), written here as the fraction num/den; a product is    *)
(* exact for the decimal rates and truncated at the last limb for 1/n.     *)
(* Float rounding error is the one thing the model abstracts from.  A      *)
(* float quotient x / y is kept as the unevaluated fraction                *)
(* [num |-> x, den |-> y].                                                 *)
(***************************************************************************)
EXTENDS Integers, Sequences, FiniteSets, TLC

VARIABLES
    filing_status,  \* self.filing_status of the tax calculators
    tax_year,       \* self.tax_year of the calculators
    op,             \* the method called last ("idle" between calls)
    args,           \* its arguments
    result,         \* what it returned, or [raised |-> "ValueError"]
    assets,         \* the committed rows of the table assets, by id
    depreciation_schedules,  \* the committed rows of depreciation_schedules
    entities,       \* the committed rows of the table entities, by id
    transactions    \* the committed rows of the table transactions, by id

vars ==
    <<filing_status, tax_year, op, args, result, assets, depreciation_schedules,
      entities, transactions>>

---------------------------------------------------------------------------
(* Fixed-point arithmetic standing for Python's float arithmetic.          *)

BASE == 10^4
FracLimbs == 3
IntLimbs == 3
NL == FracLimbs + IntLimbs

RECURSIVE ToLimbs(_, _)
ToLimbs(n, k) == IF k = 0 THEN <<>> ELSE <<n % BASE>> \o ToLimbs(n \div BASE, k - 1)

\* Carry propagation over the limb values s[i..NL] with incoming carry c.
RECURSIVE Norm(_, _, _)
Norm(s, i, c) ==
    IF i > NL THEN <<>>
    ELSE LET v == s[i] + c IN <<v % BASE>> \o Norm(s, i + 1, v \div BASE)

\* float('inf'): a value no amount equals.
Infinity == [i \in 1..NL |-> BASE]

Zero == ToLimbs(0, NL)

\* The whole-dollar amount n.
Dollars(n) == [i \in 1..FracLimbs |-> 0] \o ToLimbs(n, IntLimbs)

Add(a, b) == Norm([i \in 1..NL |-> a[i] + b[i]], 1, 0)

Sub(a, b) ==
    IF a = Infinity THEN Infinity
    ELSE Norm([i \in 1..NL |-> a[i] - b[i]], 1, 0)

IsNeg(a) == a[NL] >= BASE \div 2

Neg(a) == Sub(Zero, a)

Lt(a, b) == IF b = Infinity THEN a # Infinity
            ELSE IF a = Infinity THEN FALSE
            ELSE IsNeg(Sub(a, b))

Le(a, b) == ~Lt(b, a)

Gt(a, b) == Lt(b, a)

Min(a, b) == IF Lt(b, a) THEN b ELSE a

Max(a, b) == IF Lt(a, b) THEN b ELSE a

\* a * p for an integer 0 <= p <= BASE.
Scale(a, p) == Norm([i \in 1..NL |-> a[i] * p], 1, 0)

\* Long division of a non-negative amount by an integer 1 <= d <= BASE.
RECURSIVE DivLimbs(_, _, _, _)
DivLimbs(a, d, i, r) ==
    IF i = 0 THEN <<>>
    ELSE LET v == r * BASE + a[i] IN DivLimbs(a, d, i - 1, v % d) \o <<v \div d>>

Quo(a, d) ==
    IF IsNeg(a) THEN Neg(DivLimbs(Neg(a), d, NL, 0)) ELSE DivLimbs(a, d, NL, 0)

\* A float rate literal num/den, and the product amount * rate.
Rate(n, d) == [num |-> n, den |-> d]

Times(a, r) == Quo(Scale(a, r.num), r.den)

\* The float quotient x / y, and the float 0.0 as a quotient.
Quotient(x, y) == [num |-> x, den |-> y]

ZeroQuotient == Quotient(Zero, Dollars(1))

\* sum() of a sequence of amounts.
RECURSIVE Sum(_)
Sum(s) == IF s = <<>> THEN Zero ELSE Add(Head(s), Sum(Tail(s)))

---------------------------------------------------------------------------
(* config/tax_constants.py                                                 *)

Bracket(lo, hi, r) == [min |-> lo, max |-> hi, rate |-> r]

FEDERAL_TAX_BRACKETS_MFJ_2024 == <<
    Bracket(Dollars(0),      Dollars(23200),  Rate(10, 100)),
    Bracket(Dollars(23200),  Dollars(94300),  Rate(12, 100)),
    Bracket(Dollars(94300),  Dollars(201050), Rate(22, 100)),
    Bracket(Dollars(201050), Dollars(383900), Rate(24, 100)),
    Bracket(Dollars(383900), Dollars(487450), Rate(32, 100)),
    Bracket(Dollars(487450), Dollars(731200), Rate(35, 100)),
    Bracket(Dollars(731200), Infinity,        Rate(37, 100)) >>

FEDERAL_TAX_BRACKETS_SINGLE_2024 == <<
    Bracket(Dollars(0),      Dollars(11600),  Rate(10, 100)),
    Bracket(Dollars(11600),  Dollars(47150),  Rate(12, 100)),
    Bracket(Dollars(47150),  Dollars(100525), Rate(22, 100)),
    Bracket(Dollars(100525), Dollars(191950), Rate(24, 100)),
    Bracket(Dollars(191950), Dollars(243725), Rate(32, 100)),
    Bracket(Dollars(243725), Dollars(609350), Rate(35, 100)),
    Bracket(Dollars(609350), Infinity,        Rate(37, 100)) >>

FilingStatuses ==
    {"single", "married_filing_jointly", "married_filing_separately", "head_of_household"}

STANDARD_DEDUCTION_2024 ==
    [fs \in FilingStatuses |->
        CASE fs = "single" -> Dollars(14600)
          [] fs = "married_filing_jointly" -> Dollars(29200)
          [] fs = "married_filing_separately" -> Dollars(14600)
          [] fs = "head_of_household" -> Dollars(21900)]

\* Mutant: the 15.3% tax rate is taken for the 92.35% earnings factor.
SELF_EMPLOYMENT_DEDUCTION_as_tax_rate == Rate(153, 1000)

SELF_EMPLOYMENT_DEDUCTION == Rate(9235, 10000)
SOCIAL_SECURITY_WAGE_BASE_2024 == Dollars(168600)
ADDITIONAL_MEDICARE_TAX_THRESHOLD_MFJ == Dollars(250000)
ADDITIONAL_MEDICARE_TAX_RATE == Rate(9, 1000)

get_tax_brackets(fs) ==
    IF fs = "married_filing_jointly" THEN FEDERAL_TAX_BRACKETS_MFJ_2024
    ELSE FEDERAL_TAX_BRACKETS_SINGLE_2024

\* Mutant: the filing status is ignored.
get_standard_deduction_ignoring_status(fs) == STANDARD_DEDUCTION_2024["single"]

get_standard_deduction(fs) ==
    IF fs \in DOMAIN STANDARD_DEDUCTION_2024 THEN STANDARD_DEDUCTION_2024[fs] ELSE Zero

---------------------------------------------------------------------------
(* modules/tax_calc/federal_tax.py: FederalTaxCalculator                   *)

calculate_self_employment_tax(fs, net_farm_profit) ==
    LET net_earnings == Times(net_farm_profit, SELF_EMPLOYMENT_DEDUCTION) IN
    IF Le(net_earnings, Zero)
    THEN [net_farm_profit |-> net_farm_profit,
          net_earnings |-> Zero,
          social_security_tax |-> Zero,
          medicare_tax |-> Zero,
          additional_medicare_tax |-> Zero,
          total_se_tax |-> Zero,
          deductible_se_tax |-> Zero]
    ELSE
    LET social_security_base == Min(net_earnings, SOCIAL_SECURITY_WAGE_BASE_2024)
        social_security_tax == Times(social_security_base, Rate(124, 1000))
        medicare_tax == Times(net_earnings, Rate(29, 1000))
        threshold == IF fs = "married_filing_jointly"
                     THEN ADDITIONAL_MEDICARE_TAX_THRESHOLD_MFJ
                     ELSE Dollars(200000)
        additional_medicare_tax ==
            IF Gt(net_earnings, threshold)
            THEN Times(Sub(net_earnings, threshold), ADDITIONAL_MEDICARE_TAX_RATE)
            ELSE Zero
        total_se_tax == Add(Add(social_security_tax, medicare_tax), additional_medicare_tax)
        deductible_se_tax == Times(total_se_tax, Rate(50, 100))
    IN [net_farm_profit |-> net_farm_profit,
        net_earnings |-> net_earnings,
        social_security_tax |-> social_security_tax,
        social_security_base |-> social_security_base,
        medicare_tax |-> medicare_tax,
        additional_medicare_tax |-> additional_medicare_tax,
        total_se_tax |-> total_se_tax,
        deductible_se_tax |-> deductible_se_tax]

\* Mutant: the bracket's lower bound is not subtracted.
bracket_width_from_zero(bracket) == bracket.max

\* bracket_max - bracket_min
bracket_width(bracket) == Sub(bracket.max, bracket.min)

\* The loop with total_tax assigned, not added to, in each bracket.
RECURSIVE income_tax_loop_not_accumulating(_, _, _, _, _, _)
income_tax_loop_not_accumulating(brackets, taxable_income, i, total_tax, brackets_used, remaining_income) ==
    IF i > Len(brackets) THEN [total_tax |-> total_tax, brackets_used |-> brackets_used]
    ELSE IF Le(remaining_income, Zero)
    THEN [total_tax |-> total_tax, brackets_used |-> brackets_used]
    ELSE IF Gt(taxable_income, brackets[i].min)
    THEN LET taxable_in_bracket ==
                 Min(remaining_income, bracket_width(brackets[i]))
             tax_in_bracket == Times(taxable_in_bracket, brackets[i].rate)
         IN income_tax_loop_not_accumulating(brackets, taxable_income, i + 1,
                tax_in_bracket,
                Append(brackets_used,
                       [min |-> brackets[i].min, max |-> brackets[i].max,
                        rate |-> brackets[i].rate,
                        taxable_amount |-> taxable_in_bracket,
                        tax |-> tax_in_bracket]),
                Sub(remaining_income, taxable_in_bracket))
    ELSE income_tax_loop_not_accumulating(brackets, taxable_income, i + 1,
                                          total_tax, brackets_used, remaining_income)

\* The loop over self.tax_brackets from bracket i on, with the loop's locals
\* total_tax, brackets_used and remaining_income.
RECURSIVE income_tax_loop(_, _, _, _, _, _)
income_tax_loop(brackets, taxable_income, i, total_tax, brackets_used, remaining_income) ==
    IF i > Len(brackets) THEN [total_tax |-> total_tax, brackets_used |-> brackets_used]
    ELSE IF Le(remaining_income, Zero)
    THEN [total_tax |-> total_tax, brackets_used |-> brackets_used]
    ELSE IF Gt(taxable_income, brackets[i].min)
    THEN LET taxable_in_bracket ==
                 Min(remaining_income, bracket_width(brackets[i]))
             tax_in_bracket == Times(taxable_in_bracket, brackets[i].rate)
         IN income_tax_loop(brackets, taxable_income, i + 1,
                Add(total_tax, tax_in_bracket),
                Append(brackets_used,
                       [min |-> brackets[i].min, max |-> brackets[i].max,
                        rate |-> brackets[i].rate,
                        taxable_amount |-> taxable_in_bracket,
                        tax |-> tax_in_bracket]),
                Sub(remaining_income, taxable_in_bracket))
    ELSE income_tax_loop(brackets, taxable_income, i + 1,
                         total_tax, brackets_used, remaining_income)

calculate_income_tax(fs, taxable_income) ==
    IF Le(taxable_income, Zero)
    THEN [taxable_income |-> Zero, total_tax |-> Zero,
          effective_rate |-> ZeroQuotient, brackets_used |-> <<>>]
    ELSE LET walk == income_tax_loop(get_tax_brackets(fs), taxable_income, 1,
                                     Zero, <<>>, taxable_income)
         IN [taxable_income |-> taxable_income,
             total_tax |-> walk.total_tax,
             effective_rate |-> IF Gt(taxable_income, Zero)
                                THEN Quotient(walk.total_tax, taxable_income)
                                ELSE ZeroQuotient,
             brackets_used |-> walk.brackets_used]

calculate_farm_tax_liability(fs, total_income, total_expenses, depreciation, other_income, itemized_deductions, use_standard_deduction) ==
    LET total_deductions == Add(total_expenses, depreciation)
        net_farm_profit == Sub(total_income, total_deductions)
        se_tax_calc == calculate_self_employment_tax(fs, net_farm_profit)
        agi == Sub(Add(net_farm_profit, other_income), se_tax_calc.deductible_se_tax)
        deduction == IF use_standard_deduction
                     THEN get_standard_deduction(fs)
                     ELSE itemized_deductions
        deduction_type == IF use_standard_deduction THEN "standard" ELSE "itemized"
        taxable_income == Max(Zero, Sub(agi, deduction))
        income_tax_calc == calculate_income_tax(fs, taxable_income)
        total_federal_tax == Add(income_tax_calc.total_tax, se_tax_calc.total_se_tax)
    IN [farm_income |-> total_income,
        farm_expenses |-> total_expenses,
        depreciation |-> depreciation,
        total_farm_deductions |-> total_deductions,
        net_farm_profit |-> net_farm_profit,
        other_income |-> other_income,
        self_employment_tax |-> se_tax_calc,
        agi |-> agi,
        deduction_type |-> deduction_type,
        deduction_amount |-> deduction,
        taxable_income |-> taxable_income,
        income_tax |-> income_tax_calc,
        total_federal_tax |-> total_federal_tax,
        effective_total_rate |-> IF Gt(agi, Zero)
                                 THEN Quotient(total_federal_tax, agi)
                                 ELSE ZeroQuotient]

---------------------------------------------------------------------------
(* config/tax_constants.py: depreciation rules                             *)

SECTION_179_LIMIT_2024 == Dollars(1220000)
SECTION_179_PHASE_OUT_THRESHOLD_2024 == Dollars(3050000)

BONUS_DEPRECIATION_RATE_2024 == Rate(60, 100)
BONUS_DEPRECIATION_RATE_2023 == Rate(80, 100)
BONUS_DEPRECIATION_RATE_2022 == Rate(100, 100)

\* recovery_period is kept in tenths of a year (27.5 years is 275).
MACRS_CLASSES ==
    [c \in {"3-year", "5-year", "7-year", "10-year", "15-year", "20-year",
            "27.5-year", "39-year"} |->
        [recovery_period_tenths |->
            CASE c = "3-year" -> 30
              [] c = "5-year" -> 50
              [] c = "7-year" -> 70
              [] c = "10-year" -> 100
              [] c = "15-year" -> 150
              [] c = "20-year" -> 200
              [] c = "27.5-year" -> 275
              [] c = "39-year" -> 390]]

\* The table's literals, in ten-thousandths.
MACRS_DEPRECIATION_RATES_HY ==
    [p \in {3, 5, 7, 10, 15, 20} |->
        CASE p = 3 -> <<3333, 4445, 1481, 741>>
          [] p = 5 -> <<2000, 3200, 1920, 1152, 1152, 576>>
          [] p = 7 -> <<1429, 2449, 1749, 1249, 893, 892, 893, 446>>
          [] p = 10 -> <<1000, 1800, 1440, 1152, 922, 737, 655, 655, 656, 655, 328>>
          [] p = 15 -> <<500, 950, 855, 770, 693, 623, 590, 590, 591, 590,
                         591, 590, 591, 590, 591, 295>>
          [] p = 20 -> <<375, 722, 668, 618, 571, 528, 489, 452, 447, 447,
                         446, 446, 446, 446, 446, 446, 446, 446, 446, 446, 223>>]

---------------------------------------------------------------------------
(* Python values the calculators pass around.                              *)

\* None, for an optional amount or date.
None == <<>>

\* A datetime, of which the calculators read only .year.
Date(y) == <<y>>

YearOf(d) == d[1]

\* An exception leaving a method.
Raise(e) == [raised |-> e]

Raised(r) == "raised" \in DOMAIN r

\* int(x) of a number of tenths.
IntOfTenths(t) == t \div 10

---------------------------------------------------------------------------
(* modules/assets/depreciation_calculator.py: DepreciationCalculator       *)

\* tax_year = 0 stands for the omitted argument: "tax_year or self.tax_year".
get_bonus_depreciation_rate(self_tax_year, year_arg) ==
    LET year == IF year_arg = 0 THEN self_tax_year ELSE year_arg IN
    IF year >= 2024 THEN BONUS_DEPRECIATION_RATE_2024
    ELSE IF year = 2023 THEN BONUS_DEPRECIATION_RATE_2023
    ELSE BONUS_DEPRECIATION_RATE_2022

\* Mutant: the basis left after Section 179 is not reduced by the deduction.
calculate_section_179_keeping_basis(asset_cost, total_equipment_placed, elected_amount) ==
    LET phase_out == /\ total_equipment_placed # None
                     /\ total_equipment_placed # Zero
                     /\ Gt(total_equipment_placed, SECTION_179_PHASE_OUT_THRESHOLD_2024)
        excess == Sub(total_equipment_placed, SECTION_179_PHASE_OUT_THRESHOLD_2024)
        max_deduction == IF phase_out
                         THEN Max(Zero, Sub(SECTION_179_LIMIT_2024, excess))
                         ELSE SECTION_179_LIMIT_2024
        section_179_amount ==
            IF elected_amount # None
            THEN Min(Min(elected_amount, asset_cost), max_deduction)
            ELSE Min(asset_cost, max_deduction)
    IN [section_179_amount |-> section_179_amount,
        remaining_basis |-> asset_cost,
        max_available |-> max_deduction,
        fully_expensed |-> (section_179_amount = asset_cost)]

\* Mutant: the deduction is not limited to the cost of the asset.
calculate_section_179_above_cost(asset_cost, total_equipment_placed, elected_amount) ==
    LET phase_out == /\ total_equipment_placed # None
                     /\ total_equipment_placed # Zero
                     /\ Gt(total_equipment_placed, SECTION_179_PHASE_OUT_THRESHOLD_2024)
        excess == Sub(total_equipment_placed, SECTION_179_PHASE_OUT_THRESHOLD_2024)
        max_deduction == IF phase_out
                         THEN Max(Zero, Sub(SECTION_179_LIMIT_2024, excess))
                         ELSE SECTION_179_LIMIT_2024
        section_179_amount ==
            IF elected_amount # None
            THEN Min(elected_amount, max_deduction)
            ELSE max_deduction
        remaining_basis == Sub(asset_cost, section_179_amount)
    IN [section_179_amount |-> section_179_amount,
        remaining_basis |-> remaining_basis,
        max_available |-> max_deduction,
        fully_expensed |-> (section_179_amount = asset_cost)]

\* Mutant: "if elected_amount:" takes an election of 0 for an omitted one.
calculate_section_179_by_truthiness(asset_cost, total_equipment_placed, elected_amount) ==
    LET phase_out == /\ total_equipment_placed # None
                     /\ total_equipment_placed # Zero
                     /\ Gt(total_equipment_placed, SECTION_179_PHASE_OUT_THRESHOLD_2024)
        excess == Sub(total_equipment_placed, SECTION_179_PHASE_OUT_THRESHOLD_2024)
        max_deduction == IF phase_out
                         THEN Max(Zero, Sub(SECTION_179_LIMIT_2024, excess))
                         ELSE SECTION_179_LIMIT_2024
        section_179_amount ==
            IF elected_amount # None /\ elected_amount # Zero
            THEN Min(Min(elected_amount, asset_cost), max_deduction)
            ELSE Min(asset_cost, max_deduction)
        remaining_basis == Sub(asset_cost, section_179_amount)
    IN [section_179_amount |-> section_179_amount,
        remaining_basis |-> remaining_basis,
        max_available |-> max_deduction,
        fully_expensed |-> (section_179_amount = asset_cost)]

calculate_section_179(asset_cost, total_equipment_placed, elected_amount) ==
    LET phase_out == /\ total_equipment_placed # None
                     /\ total_equipment_placed # Zero
                     /\ Gt(total_equipment_placed, SECTION_179_PHASE_OUT_THRESHOLD_2024)
        excess == Sub(total_equipment_placed, SECTION_179_PHASE_OUT_THRESHOLD_2024)
        max_deduction == IF phase_out
                         THEN Max(Zero, Sub(SECTION_179_LIMIT_2024, excess))
                         ELSE SECTION_179_LIMIT_2024
        section_179_amount ==
            IF elected_amount # None
            THEN Min(Min(elected_amount, asset_cost), max_deduction)
            ELSE Min(asset_cost, max_deduction)
        remaining_basis == Sub(asset_cost, section_179_amount)
    IN [section_179_amount |-> section_179_amount,
        remaining_basis |-> remaining_basis,
        max_available |-> max_deduction,
        fully_expensed |-> (section_179_amount = asset_cost)]

\* Mutant: the rate is always that of the calculator's tax year.
calculate_bonus_depreciation_by_tax_year(self_tax_year, remaining_basis, placed_in_service_date) ==
    LET bonus_rate == get_bonus_depreciation_rate(self_tax_year, self_tax_year)
        bonus_amount == Times(remaining_basis, bonus_rate)
        remaining_basis_after_bonus == Sub(remaining_basis, bonus_amount)
    IN [bonus_amount |-> bonus_amount,
        bonus_rate |-> bonus_rate,
        remaining_basis |-> remaining_basis_after_bonus,
        fully_depreciated |-> (bonus_amount = remaining_basis)]

calculate_bonus_depreciation(self_tax_year, remaining_basis, placed_in_service_date) ==
    LET year == IF placed_in_service_date # None
                THEN YearOf(placed_in_service_date)
                ELSE self_tax_year
        bonus_rate == get_bonus_depreciation_rate(self_tax_year, year)
        bonus_amount == Times(remaining_basis, bonus_rate)
        remaining_basis_after_bonus == Sub(remaining_basis, bonus_amount)
    IN [bonus_amount |-> bonus_amount,
        bonus_rate |-> bonus_rate,
        remaining_basis |-> remaining_basis_after_bonus,
        fully_depreciated |-> (bonus_amount = remaining_basis)]

\* len(MACRS_DEPRECIATION_RATES_HY.get(recovery_period, []))
hy_table_length(recovery_period) ==
    IF recovery_period \in DOMAIN MACRS_DEPRECIATION_RATES_HY
    THEN Len(MACRS_DEPRECIATION_RATES_HY[recovery_period])
    ELSE 0

\* Mutant: the year of service is used as the list index.
macrs_rate_index_off_by_one(year_in_service) == year_in_service

\* rate_index = year_in_service - 1
macrs_rate_index(year_in_service) == year_in_service - 1

calculate_macrs_depreciation(asset_basis, macrs_class, year_in_service) ==
    IF Le(asset_basis, Zero)
    THEN [macrs_amount |-> Zero,
          depreciation_rate |-> Rate(0, 1),
          year_in_service |-> year_in_service,
          fully_depreciated |-> TRUE]
    ELSE IF macrs_class \notin DOMAIN MACRS_CLASSES
    THEN Raise("ValueError")
    ELSE
    LET recovery_period == IntOfTenths(MACRS_CLASSES[macrs_class].recovery_period_tenths)
        in_table == recovery_period \in DOMAIN MACRS_DEPRECIATION_RATES_HY
        rates == MACRS_DEPRECIATION_RATES_HY[recovery_period]
        rate_index == macrs_rate_index(year_in_service)
        \* rates[rate_index]: a negative index counts from the end of the list
        position == IF rate_index >= 0 THEN rate_index + 1
                    ELSE Len(rates) + rate_index + 1
        depreciation_rate ==
            IF in_table
            THEN IF rate_index < Len(rates)
                 THEN Rate(rates[position], 10000)
                 ELSE Rate(0, 1)
            ELSE Rate(1, recovery_period)
    IN IF in_table /\ rate_index < Len(rates) /\ position < 1
       THEN Raise("IndexError")
       ELSE [macrs_amount |-> Times(asset_basis, depreciation_rate),
             depreciation_rate |-> depreciation_rate,
             year_in_service |-> year_in_service,
             recovery_period |-> recovery_period,
             fully_depreciated |-> (year_in_service > hy_table_length(recovery_period))]

\* tax_year_arg = 0 stands for the omitted argument: "tax_year or self.tax_year".
calculate_total_depreciation(self_tax_year, asset_cost, macrs_class, placed_in_service_date, tax_year_arg, use_section_179, section_179_amount, use_bonus, total_equipment_placed) ==
    LET year == IF tax_year_arg = 0 THEN self_tax_year ELSE tax_year_arg
        \* Step 1: Section 179
        step1 == use_section_179 /\ Gt(asset_cost, Zero)
        s179_calc == calculate_section_179(asset_cost, total_equipment_placed,
                                           section_179_amount)
        section_179 == IF step1 THEN s179_calc.section_179_amount ELSE Zero
        basis1 == IF step1 THEN s179_calc.remaining_basis ELSE asset_cost
        \* Step 2: bonus depreciation
        step2 == use_bonus /\ Gt(basis1, Zero)
        bonus_calc == calculate_bonus_depreciation(self_tax_year, basis1,
                                                   placed_in_service_date)
        bonus_depreciation == IF step2 THEN bonus_calc.bonus_amount ELSE Zero
        basis2 == IF step2 THEN bonus_calc.remaining_basis ELSE basis1
        \* Step 3: MACRS on the remaining basis
        step3 == Gt(basis2, Zero)
        macrs_calc == calculate_macrs_depreciation(basis2, macrs_class, 1)
        macrs_depreciation == IF step3 THEN macrs_calc.macrs_amount ELSE Zero
        basis3 == IF step3 THEN Sub(basis2, macrs_calc.macrs_amount) ELSE basis2
    IN IF step3 /\ Raised(macrs_calc) THEN macrs_calc
       ELSE (IF step2 THEN [bonus_rate |-> bonus_calc.bonus_rate] ELSE <<>>)
         @@ (IF step3 THEN [macrs_rate |-> macrs_calc.depreciation_rate] ELSE <<>>)
         @@ [asset_cost |-> asset_cost,
             tax_year |-> year,
             section_179 |-> section_179,
             bonus_depreciation |-> bonus_depreciation,
             macrs_depreciation |-> macrs_depreciation,
             total_depreciation |->
                 Add(Add(section_179, bonus_depreciation), macrs_depreciation),
             remaining_basis |-> basis3,
             basis_for_future_macrs |->
                 Sub(Sub(asset_cost, section_179), bonus_depreciation)]

\* Mutant: Section 179 and bonus are taken again in every year.
first_year_only_every_year(year_number, amount) == amount

\* Section 179 and bonus enter the first year's entry and are 0.0 afterwards.
first_year_only(year_number, amount) == IF year_number = 1 THEN amount ELSE Zero

\* The loop "for year_number in range(1, years_to_project + 1)" from
\* year_number on, with the locals schedule and remaining_book_value.
RECURSIVE schedule_loop(_, _, _, _, _, _, _, _, _)
schedule_loop(macrs_basis, macrs_class, placed_year, first_year_section_179, first_year_bonus, years_to_project, year_number, schedule, remaining_book_value) ==
    IF year_number > years_to_project THEN schedule
    ELSE
    LET section_179 == first_year_only(year_number, first_year_section_179)
        bonus_depreciation == first_year_only(year_number, first_year_bonus)
        macrs_depreciation ==
            IF Gt(macrs_basis, Zero)
            THEN calculate_macrs_depreciation(macrs_basis, macrs_class,
                                              year_number).macrs_amount
            ELSE Zero
        total_depreciation ==
            Add(Add(section_179, bonus_depreciation), macrs_depreciation)
        remaining == Sub(remaining_book_value, total_depreciation)
        year_data == [year |-> placed_year + year_number - 1,
                      year_in_service |-> year_number,
                      beginning_book_value |-> remaining_book_value,
                      section_179 |-> section_179,
                      bonus_depreciation |-> bonus_depreciation,
                      macrs_depreciation |-> macrs_depreciation,
                      total_depreciation |-> total_depreciation,
                      ending_book_value |-> Max(Zero, remaining)]
    IN IF Le(remaining, Zero) THEN Append(schedule, year_data)
       ELSE schedule_loop(macrs_basis, macrs_class, placed_year,
                          first_year_section_179, first_year_bonus, years_to_project,
                          year_number + 1, Append(schedule, year_data), remaining)

\* years_to_project = -1 stands for None (the default).
calculate_annual_depreciation_schedule(asset_cost, macrs_class, placed_in_service_date, first_year_section_179, first_year_bonus, years_to_project) ==
    IF macrs_class \notin DOMAIN MACRS_CLASSES THEN Raise("ValueError")
    ELSE
    LET recovery_period == IntOfTenths(MACRS_CLASSES[macrs_class].recovery_period_tenths)
        years == IF years_to_project = -1 THEN recovery_period + 1 ELSE years_to_project
        macrs_basis == Sub(Sub(asset_cost, first_year_section_179), first_year_bonus)
    IN [schedule |->
          schedule_loop(macrs_basis, macrs_class, YearOf(placed_in_service_date),
                        first_year_section_179, first_year_bonus, years, 1, <<>>,
                        asset_cost)]

---------------------------------------------------------------------------
(* modules/tax_calc/federal_tax.py: FederalTaxCalculator, quarterly        *)
(* estimates                                                               *)

\* The quarters after the last one that has a payment > 0.
quarters_remaining_after_last_payment(payments_made) ==
    LET paid == {i \in DOMAIN payments_made : Gt(payments_made[i], Zero)}
    IN IF paid = {} THEN 4 ELSE 4 - (CHOOSE i \in paid : \A j \in paid : j <= i)

\* The quarters still open: 4 minus the number of payments that are > 0.
quarters_remaining(payments_made) ==
    4 - Cardinality({i \in DOMAIN payments_made : Gt(payments_made[i], Zero)})

\* estimate_quarterly_taxes dividing by the quarters that remain without
\* looking at their number: the division by 0 raises.
estimate_quarterly_taxes_unguarded(estimated_annual_tax, payments_made_arg) ==
    LET payments_made == IF payments_made_arg = None
                         THEN <<Zero, Zero, Zero, Zero>>
                         ELSE payments_made_arg
        remaining == Max(Zero, Sub(estimated_annual_tax, Sum(payments_made)))
    IN IF quarters_remaining(payments_made) = 0
       THEN Raise("ZeroDivisionError")
       ELSE [estimated_annual_tax |-> estimated_annual_tax,
             quarterly_amount |-> Quo(estimated_annual_tax, 4),
             payments_made |-> payments_made,
             total_paid |-> Sum(payments_made),
             remaining_due |-> remaining,
             recommended_next_payment |->
                 Quo(remaining, quarters_remaining(payments_made))]

\* payments_made_arg = None stands for the omitted argument.  The
\* payment_schedule, four copies of quarterly_amount, is left out.
estimate_quarterly_taxes(estimated_annual_tax, payments_made_arg) ==
    LET payments_made == IF payments_made_arg = None
                         THEN <<Zero, Zero, Zero, Zero>>
                         ELSE payments_made_arg
        quarterly_amount == Quo(estimated_annual_tax, 4)
        total_paid == Sum(payments_made)
        remaining == Max(Zero, Sub(estimated_annual_tax, total_paid))
    IN [estimated_annual_tax |-> estimated_annual_tax,
        quarterly_amount |-> quarterly_amount,
        payments_made |-> payments_made,
        total_paid |-> total_paid,
        remaining_due |-> remaining,
        recommended_next_payment |->
            IF quarters_remaining(payments_made) > 0
            THEN Quo(remaining, quarters_remaining(payments_made))
            ELSE Zero]

\* calculate_farm_income_averaging without the check of the number of
\* prior years.
calculate_farm_income_averaging_any_count(current_year_income, prior_year_incomes) ==
    LET avg_prior_income == Quo(Sum(prior_year_incomes), 3)
        elected_farm_income == Max(Zero, Sub(current_year_income, avg_prior_income))
    IN [current_year_income |-> current_year_income,
        prior_year_incomes |-> prior_year_incomes,
        average_prior_income |-> avg_prior_income,
        elected_farm_income |-> elected_farm_income,
        allocated_per_year |-> Quo(elected_farm_income, 3)]

\* The note, a fixed string, is left out.
calculate_farm_income_averaging(current_year_income, prior_year_incomes) ==
    IF Len(prior_year_incomes) # 3 THEN Raise("ValueError")
    ELSE LET avg_prior_income == Quo(Sum(prior_year_incomes), 3)
             elected_farm_income ==
                 Max(Zero, Sub(current_year_income, avg_prior_income))
         IN [current_year_income |-> current_year_income,
             prior_year_incomes |-> prior_year_incomes,
             average_prior_income |-> avg_prior_income,
             elected_farm_income |-> elected_farm_income,
             allocated_per_year |-> Quo(elected_farm_income, 3)]

---------------------------------------------------------------------------
(* config/tax_constants.py: Louisiana                                      *)

LA_TAX_BRACKETS_2024 == <<
    Bracket(Dollars(0),     Dollars(12500), Rate(185, 10000)),
    Bracket(Dollars(12500), Dollars(50000), Rate(35, 1000)),
    Bracket(Dollars(50000), Infinity,       Rate(425, 10000)) >>

LA_STANDARD_DEDUCTION_2024 ==
    [fs \in FilingStatuses |->
        CASE fs = "single" -> Dollars(4500)
          [] fs = "married_filing_jointly" -> Dollars(9000)
          [] fs = "married_filing_separately" -> Dollars(4500)
          [] fs = "head_of_household" -> Dollars(4500)]

LA_PERSONAL_EXEMPTION_2024 == Dollars(4500)
LA_DEPENDENT_EXEMPTION_2024 == Dollars(1000)
LA_ALLOWS_FEDERAL_ITEMIZED_DEDUCTION == TRUE

---------------------------------------------------------------------------
(* modules/tax_calc/louisiana_tax.py: LouisianaTaxCalculator               *)

\* Mutant: the amount in a bracket is not capped at the bracket's upper bound.
la_taxable_in_bracket_uncapped(la_taxable_income, bracket) ==
    Sub(la_taxable_income, bracket.min)

\* The amount of la_taxable_income that lies in a bracket it reaches into.
la_taxable_in_bracket(la_taxable_income, bracket) ==
    IF Le(la_taxable_income, bracket.max)
    THEN Sub(la_taxable_income, bracket.min)
    ELSE Sub(bracket.max, bracket.min)

\* The loop entering a bracket as soon as the income reaches its lower bound.
RECURSIVE la_tax_loop_from_bracket_floor(_, _, _, _, _)
la_tax_loop_from_bracket_floor(brackets, la_taxable_income, i, total_tax, brackets_used) ==
    IF i > Len(brackets) THEN [total_tax |-> total_tax, brackets_used |-> brackets_used]
    ELSE IF Le(brackets[i].min, la_taxable_income)
    THEN LET taxable_in_bracket == la_taxable_in_bracket(la_taxable_income, brackets[i])
             tax_in_bracket == Times(taxable_in_bracket, brackets[i].rate)
         IN la_tax_loop_from_bracket_floor(brackets, la_taxable_income, i + 1,
                Add(total_tax, tax_in_bracket),
                Append(brackets_used,
                       [min |-> brackets[i].min, max |-> brackets[i].max,
                        rate |-> brackets[i].rate,
                        taxable_amount |-> taxable_in_bracket,
                        tax |-> tax_in_bracket]))
    ELSE la_tax_loop_from_bracket_floor(brackets, la_taxable_income, i + 1,
                                        total_tax, brackets_used)

\* The loop over self.tax_brackets from bracket i on, with the locals
\* total_tax and brackets_used.
RECURSIVE la_tax_loop(_, _, _, _, _)
la_tax_loop(brackets, la_taxable_income, i, total_tax, brackets_used) ==
    IF i > Len(brackets) THEN [total_tax |-> total_tax, brackets_used |-> brackets_used]
    ELSE IF Gt(la_taxable_income, brackets[i].min)
    THEN LET taxable_in_bracket == la_taxable_in_bracket(la_taxable_income, brackets[i])
             tax_in_bracket == Times(taxable_in_bracket, brackets[i].rate)
         IN la_tax_loop(brackets, la_taxable_income, i + 1,
                Add(total_tax, tax_in_bracket),
                Append(brackets_used,
                       [min |-> brackets[i].min, max |-> brackets[i].max,
                        rate |-> brackets[i].rate,
                        taxable_amount |-> taxable_in_bracket,
                        tax |-> tax_in_bracket]))
    ELSE la_tax_loop(brackets, la_taxable_income, i + 1, total_tax, brackets_used)

\* The formatted strings rate_percent and effective_rate_percent of the
\* returned dictionary are left out.
calculate_louisiana_income_tax(fs, louisiana_agi, num_exemptions, num_dependents, federal_itemized_deductions, use_standard_deduction) ==
    LET deduction ==
            IF use_standard_deduction
            THEN IF fs = "married_filing_jointly"
                 THEN LA_STANDARD_DEDUCTION_2024["married_filing_jointly"]
                 ELSE IF fs = "single"
                 THEN LA_STANDARD_DEDUCTION_2024["single"]
                 ELSE IF fs \in DOMAIN LA_STANDARD_DEDUCTION_2024
                 THEN LA_STANDARD_DEDUCTION_2024[fs]
                 ELSE Zero
            ELSE IF LA_ALLOWS_FEDERAL_ITEMIZED_DEDUCTION
                 THEN federal_itemized_deductions
                 ELSE Zero
        deduction_type == IF use_standard_deduction THEN "standard" ELSE "itemized"
        personal_exemptions == Scale(LA_PERSONAL_EXEMPTION_2024, num_exemptions)
        dependent_exemptions == Scale(LA_DEPENDENT_EXEMPTION_2024, num_dependents)
        total_exemptions == Add(personal_exemptions, dependent_exemptions)
        la_taxable_income ==
            Max(Zero, Sub(Sub(louisiana_agi, deduction), total_exemptions))
        walk == la_tax_loop(LA_TAX_BRACKETS_2024, la_taxable_income, 1, Zero, <<>>)
        effective_rate == IF Gt(louisiana_agi, Zero)
                          THEN Quotient(walk.total_tax, louisiana_agi)
                          ELSE ZeroQuotient
    IN [louisiana_agi |-> louisiana_agi,
        deduction_type |-> deduction_type,
        deduction_amount |-> deduction,
        personal_exemptions |-> personal_exemptions,
        dependent_exemptions |-> dependent_exemptions,
        total_exemptions |-> total_exemptions,
        taxable_income |-> la_taxable_income,
        total_tax |-> walk.total_tax,
        effective_rate |-> effective_rate,
        brackets_used |-> walk.brackets_used]

\* Mutant: the deductible half of the federal self-employment tax is not
\* subtracted from the Louisiana AGI.
calculate_louisiana_farm_tax_without_se_deduction(fs, net_farm_profit, other_income, federal_se_tax_deduction, num_exemptions, num_dependents, use_standard_deduction, federal_itemized_deductions) ==
    LET la_agi == Add(net_farm_profit, other_income)
        la_tax_calc == calculate_louisiana_income_tax(fs, la_agi, num_exemptions,
                           num_dependents, federal_itemized_deductions,
                           use_standard_deduction)
    IN [net_farm_profit |-> net_farm_profit,
        other_income |-> other_income,
        federal_se_tax_deduction |-> federal_se_tax_deduction,
        louisiana_agi |-> la_agi,
        tax_calculation |-> la_tax_calc,
        total_louisiana_tax |-> la_tax_calc.total_tax]

calculate_louisiana_farm_tax(fs, net_farm_profit, other_income, federal_se_tax_deduction, num_exemptions, num_dependents, use_standard_deduction, federal_itemized_deductions) ==
    LET la_agi == Sub(Add(net_farm_profit, other_income), federal_se_tax_deduction)
        la_tax_calc == calculate_louisiana_income_tax(fs, la_agi, num_exemptions,
                           num_dependents, federal_itemized_deductions,
                           use_standard_deduction)
    IN [net_farm_profit |-> net_farm_profit,
        other_income |-> other_income,
        federal_se_tax_deduction |-> federal_se_tax_deduction,
        louisiana_agi |-> la_agi,
        tax_calculation |-> la_tax_calc,
        total_louisiana_tax |-> la_tax_calc.total_tax]

---------------------------------------------------------------------------
(* modules/tax_calc/louisiana_tax.py: CombinedTaxCalculator                *)

\* The dictionary calculate_combined_tax returns, from the two results.  The
\* formatted string combined_effective_rate_percent is left out.
combined_totals(fs, self_tax_year, total_income, total_expenses, depreciation, other_income, federal_calc, la_calc) ==
    LET total_tax_liability ==
            Add(federal_calc.total_federal_tax, la_calc.total_louisiana_tax)
    IN [tax_year |-> self_tax_year,
        filing_status |-> fs,
        farm_income |-> total_income,
        farm_expenses |-> total_expenses,
        depreciation |-> depreciation,
        other_income |-> other_income,
        net_farm_profit |-> federal_calc.net_farm_profit,
        agi |-> federal_calc.agi,
        federal_tax |-> federal_calc,
        louisiana_tax |-> la_calc,
        total_federal_tax |-> federal_calc.total_federal_tax,
        total_louisiana_tax |-> la_calc.total_louisiana_tax,
        total_tax_liability |-> total_tax_liability,
        combined_effective_rate |-> IF Gt(federal_calc.agi, Zero)
                                    THEN Quotient(total_tax_liability, federal_calc.agi)
                                    ELSE ZeroQuotient]

\* calculate_combined_tax from the call of the state calculator on.
combined_state_step(fs, self_tax_year, total_income, total_expenses, depreciation, other_income, num_exemptions, num_dependents, use_standard_deduction, itemized_deductions, federal_calc) ==
    combined_totals(fs, self_tax_year, total_income, total_expenses, depreciation,
        other_income, federal_calc,
        calculate_louisiana_farm_tax(fs, federal_calc.net_farm_profit, other_income,
            federal_calc.self_employment_tax.deductible_se_tax, num_exemptions,
            num_dependents, use_standard_deduction, itemized_deductions))

calculate_combined_tax(fs, self_tax_year, total_income, total_expenses, depreciation, other_income, num_exemptions, num_dependents, use_standard_deduction, itemized_deductions) ==
    combined_state_step(fs, self_tax_year, total_income, total_expenses, depreciation,
        other_income, num_exemptions, num_dependents, use_standard_deduction,
        itemized_deductions,
        calculate_farm_tax_liability(fs, total_income, total_expenses, depreciation,
            other_income, itemized_deductions, use_standard_deduction))

---------------------------------------------------------------------------
(* modules/assets/asset_manager.py: AssetManager, over the tables assets   *)
(* and depreciation_schedules of database/models.py.  Of an asset's        *)
(* columns the ones no method reads back (description,                     *)
(* asset_type, salvage_value, notes) are left out.                         *)

\* self.depreciation_calc = DepreciationCalculator(): tax_year=2024
DEFAULT_CALCULATOR_TAX_YEAR == 2024

\* self.session.query(Asset).filter_by(id=asset_id).first()
get_asset(asset_rows, asset_id) ==
    IF asset_id \in DOMAIN asset_rows THEN asset_rows[asset_id] ELSE None

\* self.session.query(DepreciationSchedule).filter_by(asset_id=..., tax_year=...).first()
query_schedule(schedule_rows, asset_id, year) ==
    LET matching == {i \in DOMAIN schedule_rows :
                        /\ schedule_rows[i].asset_id = asset_id
                        /\ schedule_rows[i].tax_year = year}
    IN IF matching = {} THEN None
       ELSE schedule_rows[CHOOSE i \in matching : \A j \in matching : i <= j]

\* What a method leaves behind: the two tables and what it returned.
Outcome(asset_rows, schedule_rows, returned) ==
    [assets |-> asset_rows, depreciation_schedules |-> schedule_rows,
     result |-> returned]

\* Asset(...) with the column defaults of the INSERT.
new_asset(id, entity_id, purchase_price, purchase_date, macrs_class, in_service_date) ==
    [id |-> id,
     entity_id |-> entity_id,
     purchase_date |-> purchase_date,
     purchase_price |-> purchase_price,
     macrs_class |-> macrs_class,
     in_service_date |-> in_service_date,
     section_179_amount |-> Zero,
     bonus_depreciation_amount |-> Zero,
     accumulated_depreciation |-> Zero,
     current_book_value |-> purchase_price,
     disposal_date |-> None,
     disposal_proceeds |-> None,
     active |-> TRUE]

\* DepreciationSchedule(...) of a first year from calculate_total_depreciation.
first_year_schedule(asset_id, year, beginning_book_value, depreciation) ==
    [asset_id |-> asset_id,
     tax_year |-> year,
     section_179_deduction |-> depreciation.section_179,
     bonus_depreciation |-> depreciation.bonus_depreciation,
     macrs_depreciation |-> depreciation.macrs_depreciation,
     total_depreciation |-> depreciation.total_depreciation,
     beginning_book_value |-> beginning_book_value,
     ending_book_value |-> depreciation.remaining_basis,
     is_final_year |-> FALSE]

\* add_asset from "if auto_calculate_depreciation:" on.
add_asset_store(asset_rows, schedule_rows, asset, auto_calculate_depreciation, depreciation) ==
    IF ~auto_calculate_depreciation
    THEN Outcome(Append(asset_rows, asset), schedule_rows, asset)
    ELSE IF Raised(depreciation)
    \* except Exception: self.session.rollback(); raise
    THEN Outcome(asset_rows, schedule_rows, depreciation)
    ELSE Outcome(
            Append(asset_rows,
                [asset EXCEPT
                    !.section_179_amount = depreciation.section_179,
                    !.bonus_depreciation_amount = depreciation.bonus_depreciation,
                    !.accumulated_depreciation = depreciation.total_depreciation,
                    !.current_book_value = depreciation.remaining_basis]),
            Append(schedule_rows,
                first_year_schedule(asset.id, YearOf(asset.in_service_date),
                                    asset.purchase_price, depreciation)),
            [asset EXCEPT
                !.section_179_amount = depreciation.section_179,
                !.bonus_depreciation_amount = depreciation.bonus_depreciation,
                !.accumulated_depreciation = depreciation.total_depreciation,
                !.current_book_value = depreciation.remaining_basis])

\* in_service_date_arg = None stands for the omitted argument.
add_asset_placed(asset_rows, schedule_rows, entity_id, purchase_price, purchase_date, macrs_class, in_service_date, auto_calculate_depreciation, use_section_179, section_179_amount, use_bonus) ==
    add_asset_store(asset_rows, schedule_rows,
        new_asset(Len(asset_rows) + 1, entity_id, purchase_price, purchase_date, macrs_class,
                  in_service_date),
        auto_calculate_depreciation,
        calculate_total_depreciation(DEFAULT_CALCULATOR_TAX_YEAR, purchase_price,
            macrs_class, in_service_date, YearOf(in_service_date), use_section_179,
            section_179_amount, use_bonus, None))

add_asset(asset_rows, schedule_rows, entity_id, purchase_price, purchase_date, macrs_class, in_service_date_arg, auto_calculate_depreciation, use_section_179, section_179_amount, use_bonus) ==
    add_asset_placed(asset_rows, schedule_rows, entity_id, purchase_price, purchase_date,
        macrs_class,
        IF in_service_date_arg = None THEN purchase_date ELSE in_service_date_arg,
        auto_calculate_depreciation, use_section_179, section_179_amount, use_bonus)

\* DepreciationSchedule(...) of a second or later year from
\* calculate_macrs_depreciation: MACRS only.
later_year_schedule(asset_id, year, beginning_book_value, macrs_calc) ==
    IF Raised(macrs_calc) THEN macrs_calc
    ELSE [asset_id |-> asset_id,
          tax_year |-> year,
          section_179_deduction |-> Zero,
          bonus_depreciation |-> Zero,
          macrs_depreciation |-> macrs_calc.macrs_amount,
          total_depreciation |-> macrs_calc.macrs_amount,
          beginning_book_value |-> beginning_book_value,
          ending_book_value |-> Sub(beginning_book_value, macrs_calc.macrs_amount),
          is_final_year |-> macrs_calc.fully_depreciated]

\* The schedule calculate_depreciation_for_year builds, or the exception of
\* the calculator.
year_schedule(asset, year, year_in_service, prior_year_schedule, depreciation) ==
    IF year_in_service = 1
    THEN IF Raised(depreciation) THEN depreciation
         ELSE first_year_schedule(asset.id, year, asset.purchase_price, depreciation)
    ELSE later_year_schedule(asset.id, year, prior_year_schedule.ending_book_value,
            calculate_macrs_depreciation(
                Sub(Sub(asset.purchase_price, asset.section_179_amount),
                    asset.bonus_depreciation_amount),
                asset.macrs_class, year_in_service))

\* The schedule stored without the update of the asset's accumulated
\* depreciation.
store_schedule_without_accumulating(asset_rows, schedule_rows, asset, schedule) ==
    IF Raised(schedule)
    THEN Outcome(asset_rows, schedule_rows, schedule)
    ELSE Outcome([asset_rows EXCEPT ![asset.id] =
                     [asset EXCEPT !.current_book_value = schedule.ending_book_value]],
                 Append(schedule_rows, schedule), schedule)

\* calculate_depreciation_for_year from "try: self.session.add(schedule)" on.
store_schedule(asset_rows, schedule_rows, asset, schedule) ==
    IF Raised(schedule)
    THEN Outcome(asset_rows, schedule_rows, schedule)
    ELSE Outcome([asset_rows EXCEPT ![asset.id] =
                     [asset EXCEPT
                         !.accumulated_depreciation =
                             Add(asset.accumulated_depreciation,
                                 schedule.total_depreciation),
                         !.current_book_value = schedule.ending_book_value]],
                 Append(schedule_rows, schedule), schedule)

\* calculate_depreciation_for_year without the look-up of the prior year's
\* schedule: the book value carries over from the asset.
depreciation_for_year_of_unordered(asset_rows, schedule_rows, asset, year, existing, prior_year_schedule) ==
    IF existing # None
    THEN Outcome(asset_rows, schedule_rows, existing)
    ELSE IF year - YearOf(asset.in_service_date) + 1 < 1
    THEN Outcome(asset_rows, schedule_rows, Raise("ValueError"))
    ELSE store_schedule(asset_rows, schedule_rows, asset,
            year_schedule(asset, year, year - YearOf(asset.in_service_date) + 1,
                [ending_book_value |-> asset.current_book_value],
                calculate_total_depreciation(DEFAULT_CALCULATOR_TAX_YEAR,
                    asset.purchase_price, asset.macrs_class, asset.in_service_date,
                    year, TRUE, None, TRUE, None)))

\* calculate_depreciation_for_year for an asset that was found.
depreciation_for_year_of(asset_rows, schedule_rows, asset, year, existing, prior_year_schedule) ==
    IF existing # None
    THEN Outcome(asset_rows, schedule_rows, existing)
    ELSE IF year - YearOf(asset.in_service_date) + 1 < 1
    THEN Outcome(asset_rows, schedule_rows, Raise("ValueError"))
    ELSE IF year - YearOf(asset.in_service_date) + 1 # 1 /\ prior_year_schedule = None
    THEN Outcome(asset_rows, schedule_rows, Raise("ValueError"))
    ELSE store_schedule(asset_rows, schedule_rows, asset,
            year_schedule(asset, year, year - YearOf(asset.in_service_date) + 1,
                prior_year_schedule,
                calculate_total_depreciation(DEFAULT_CALCULATOR_TAX_YEAR,
                    asset.purchase_price, asset.macrs_class, asset.in_service_date,
                    year, TRUE, None, TRUE, None)))

calculate_depreciation_for_year(asset_rows, schedule_rows, asset_id, year) ==
    IF get_asset(asset_rows, asset_id) = None
    THEN Outcome(asset_rows, schedule_rows, Raise("ValueError"))
    ELSE depreciation_for_year_of(asset_rows, schedule_rows,
            get_asset(asset_rows, asset_id), year,
            query_schedule(schedule_rows, asset_id, year),
            query_schedule(schedule_rows, asset_id, year - 1))

\* get_assets_by_entity: the assets of an entity, the active ones only if
\* active_only.
get_assets_by_entity(asset_rows, entity_id, active_only) ==
    SelectSeq(asset_rows,
        LAMBDA asset : asset.entity_id = entity_id /\ (active_only => asset.active))

\* The schedules get_total_depreciation_for_entity finds for a list of
\* assets and a year, one for each asset that has one.
schedules_of_year(asset_list, schedule_rows, year) ==
    LET with_schedule ==
            SelectSeq(asset_list,
                LAMBDA asset : query_schedule(schedule_rows, asset.id, year) # None)
    IN [i \in DOMAIN with_schedule |->
           query_schedule(schedule_rows, with_schedule[i].id, year)]

\* get_total_depreciation_for_entity from the assets and schedules found.
total_depreciation_of(entity_id, year, asset_list, found) ==
    [entity_id |-> entity_id,
     tax_year |-> year,
     section_179 |-> Sum([i \in DOMAIN found |-> found[i].section_179_deduction]),
     bonus_depreciation |-> Sum([i \in DOMAIN found |-> found[i].bonus_depreciation]),
     macrs_depreciation |-> Sum([i \in DOMAIN found |-> found[i].macrs_depreciation]),
     total_depreciation |->
         Add(Add(Sum([i \in DOMAIN found |-> found[i].section_179_deduction]),
                 Sum([i \in DOMAIN found |-> found[i].bonus_depreciation])),
             Sum([i \in DOMAIN found |-> found[i].macrs_depreciation])),
     asset_count |-> Len(asset_list)]

\* get_total_depreciation_for_entity counting the disposed assets too.
get_total_depreciation_for_entity_with_disposed(asset_rows, schedule_rows, entity_id, year) ==
    total_depreciation_of(entity_id, year,
        get_assets_by_entity(asset_rows, entity_id, FALSE),
        schedules_of_year(get_assets_by_entity(asset_rows, entity_id, FALSE),
                          schedule_rows, year))

get_total_depreciation_for_entity(asset_rows, schedule_rows, entity_id, year) ==
    total_depreciation_of(entity_id, year,
        get_assets_by_entity(asset_rows, entity_id, TRUE),
        schedules_of_year(get_assets_by_entity(asset_rows, entity_id, TRUE),
                          schedule_rows, year))

\* dispose_asset with the gain or loss taken against the purchase price.
dispose_asset_against_cost(asset_rows, schedule_rows, asset_id, disposal_date, disposal_proceeds) ==
    LET asset == get_asset(asset_rows, asset_id)
        disposed == [asset EXCEPT !.disposal_date = disposal_date,
                                  !.disposal_proceeds = disposal_proceeds,
                                  !.active = FALSE]
        book_value == asset.purchase_price
        gain_loss == Sub(disposal_proceeds, book_value)
    IN IF asset = None
       THEN Outcome(asset_rows, schedule_rows, Raise("ValueError"))
       ELSE Outcome([asset_rows EXCEPT ![asset_id] = disposed], schedule_rows,
                    [asset_id |-> asset_id,
                     book_value |-> book_value,
                     proceeds |-> disposal_proceeds,
                     gain_loss |-> gain_loss,
                     is_gain |-> Gt(gain_loss, Zero)])

dispose_asset(asset_rows, schedule_rows, asset_id, disposal_date, disposal_proceeds) ==
    LET asset == get_asset(asset_rows, asset_id)
        disposed == [asset EXCEPT !.disposal_date = disposal_date,
                                  !.disposal_proceeds = disposal_proceeds,
                                  !.active = FALSE]
        book_value == asset.current_book_value
        gain_loss == Sub(disposal_proceeds, book_value)
    IN IF asset = None
       THEN Outcome(asset_rows, schedule_rows, Raise("ValueError"))
       ELSE Outcome([asset_rows EXCEPT ![asset_id] = disposed], schedule_rows,
                    [asset_id |-> asset_id,
                     book_value |-> book_value,
                     proceeds |-> disposal_proceeds,
                     gain_loss |-> gain_loss,
                     is_gain |-> Gt(gain_loss, Zero)])

---------------------------------------------------------------------------
(* modules/transactions/transaction_manager.py: TransactionManager, over   *)
(* the tables entities and transactions of database/models.py.  A date is  *)
(* kept as its year; of a transaction's columns description,               *)
(* reference_number, is_prepaid_expense, tax_year and notes are left out.  *)

\* The default of the parameter accounting_method of the summaries.
DEFAULT_ACCOUNTING_METHOD == "cash"

\* None passed as accounting_method; a string here, as the methods are.
NoMethod == "None"

\* add_transaction: cash_date and accrual_date default to transaction_date.
add_transaction(transaction_rows, entity_id, transaction_date, transaction_type, category, amount, is_capital, cash_date, accrual_date) ==
    Append(transaction_rows,
        [id |-> Len(transaction_rows) + 1,
         entity_id |-> entity_id,
         transaction_date |-> transaction_date,
         transaction_type |-> transaction_type,
         category |-> category,
         amount |-> amount,
         is_capital_expense |-> is_capital,
         cash_date |-> IF cash_date = None THEN transaction_date ELSE cash_date,
         accrual_date |-> IF accrual_date = None THEN transaction_date
                          ELSE accrual_date])

\* date_field of a transaction under an accounting method.
date_field(transaction, accounting_method) ==
    IF accounting_method = "cash" THEN transaction.cash_date
    ELSE IF accounting_method = "accrual" THEN transaction.accrual_date
    ELSE transaction.transaction_date

\* The two queries of get_transactions_for_tax_year, for one transaction type.
query_transactions(transaction_rows, entity_id, transaction_type, year, accounting_method) ==
    SelectSeq(transaction_rows,
        LAMBDA t : /\ t.entity_id = entity_id
                   /\ t.transaction_type = transaction_type
                   /\ YearOf(date_field(t, accounting_method)) = year
                   /\ t.is_capital_expense = FALSE)

\* get_transactions_for_tax_year with the entity's accounting method used for
\* every call.
get_transactions_for_tax_year_by_entity_method(entity_rows, transaction_rows, entity_id, year, accounting_method) ==
    IF entity_id \notin DOMAIN entity_rows THEN Raise("ValueError")
    ELSE [income |-> query_transactions(transaction_rows, entity_id, "income", year,
                         entity_rows[entity_id].accounting_method),
          expenses |-> query_transactions(transaction_rows, entity_id, "expense", year,
                           entity_rows[entity_id].accounting_method),
          accounting_method |-> entity_rows[entity_id].accounting_method]

get_transactions_for_tax_year(entity_rows, transaction_rows, entity_id, year, accounting_method) ==
    IF entity_id \notin DOMAIN entity_rows THEN Raise("ValueError")
    ELSE LET method == IF accounting_method = NoMethod
                       THEN entity_rows[entity_id].accounting_method
                       ELSE accounting_method
         IN [income |-> query_transactions(transaction_rows, entity_id, "income",
                            year, method),
             expenses |-> query_transactions(transaction_rows, entity_id, "expense",
                              year, method),
             accounting_method |-> method]

\* The amounts of a list of transactions.
AmountsOf(transaction_list) ==
    [i \in DOMAIN transaction_list |-> transaction_list[i].amount]

\* The loop of the summaries: the amounts summed per category.
by_category(transaction_list) ==
    [c \in {transaction_list[i].category : i \in DOMAIN transaction_list} |->
        Sum(AmountsOf(SelectSeq(transaction_list, LAMBDA t : t.category = c)))]

\* get_income_summary and get_expense_summary from the transactions found.
income_summary_of(entity_id, year, found) ==
    IF Raised(found) THEN found
    ELSE [tax_year |-> year,
          entity_id |-> entity_id,
          by_category |-> by_category(found.income),
          total_income |-> Sum(AmountsOf(found.income))]

expense_summary_of(entity_id, year, found) ==
    IF Raised(found) THEN found
    ELSE [tax_year |-> year,
          entity_id |-> entity_id,
          by_category |-> by_category(found.expenses),
          total_expenses |-> Sum(AmountsOf(found.expenses))]

get_income_summary(entity_rows, transaction_rows, entity_id, year, accounting_method) ==
    income_summary_of(entity_id, year,
        get_transactions_for_tax_year(entity_rows, transaction_rows, entity_id, year,
                                      accounting_method))

get_expense_summary(entity_rows, transaction_rows, entity_id, year, accounting_method) ==
    expense_summary_of(entity_id, year,
        get_transactions_for_tax_year(entity_rows, transaction_rows, entity_id, year,
                                      accounting_method))

---------------------------------------------------------------------------
(* The calculators and their callers.  A caller constructs the calculators *)
(* with a filing status and a tax year, then calls one method at a time    *)
(* and takes its result.                                                   *)

TaxYears == {2023, 2024}

MaxProfitSteps == 6
MaxIncomeSteps == 8
MaxFarmSteps == 4
MaxCostSteps == 3
MaxYearInService == 22
MaxAgiSteps == 6
MaxCount == 2

NetFarmProfits == {Dollars(k * 50000) : k \in -1..MaxProfitSteps}

BracketEdges(brackets) ==
    UNION {{brackets[i].min, Add(brackets[i].min, Dollars(1))} : i \in DOMAIN brackets}

TaxableIncomes ==
    {Dollars(k * 100000) : k \in -1..MaxIncomeSteps}
        \cup BracketEdges(FEDERAL_TAX_BRACKETS_MFJ_2024)
        \cup BracketEdges(FEDERAL_TAX_BRACKETS_SINGLE_2024)

FarmIncomes == {Dollars(k * 100000) : k \in 0..MaxFarmSteps}

AssetCosts == {Dollars(k * 50000) : k \in -1..MaxCostSteps} \cup {Dollars(1500000)}

EquipmentPlaced ==
    {None, Zero, Dollars(3050000), Dollars(3500000), Dollars(4270000), Dollars(5000000)}

ElectedAmounts == {None, Zero, Dollars(50000), Dollars(2000000)}

PlacedDates == {Date(y) : y \in 2021..2025}

MacrsClassNames == DOMAIN MACRS_CLASSES \cup {"4-year"}

\* Net farm incomes of the current year and lists of prior-year incomes.
MaxPriorYears == 4

CurrentYearIncomes == {Dollars(-10000), Zero, Dollars(20000), Dollars(90000)}

PriorYearIncomes ==
    UNION {[1..n -> {Dollars(-20000), Dollars(30000)}] : n \in 0..MaxPriorYears}

\* Estimated annual taxes and the payments made in the four quarters.
AnnualTaxes == {Zero, Dollars(16000)}

PaymentsMade ==
    {None} \cup [1..4 -> {Dollars(-500), Zero, Dollars(3000), Dollars(5000)}]

\* Numbers of exemptions and of dependents a caller passes.
Counts == -1..MaxCount

LouisianaAgis ==
    {Dollars(k * 25000) : k \in -1..MaxAgiSteps} \cup BracketEdges(LA_TAX_BRACKETS_2024)

Init ==
    /\ filing_status \in FilingStatuses
    /\ tax_year \in TaxYears
    /\ op = "idle"
    /\ args = <<>>
    /\ result = <<>>
    /\ assets = <<>>
    /\ depreciation_schedules = <<>>
    /\ entities = <<>>
    /\ transactions = <<>>

\* The caller is done with the result.
Return ==
    /\ op # "idle"
    /\ op' = "idle"
    /\ args' = <<>>
    /\ result' = <<>>
    /\ UNCHANGED <<filing_status, tax_year, assets, depreciation_schedules,
                   entities, transactions>>

CalculateSelfEmploymentTax ==
    /\ op = "idle"
    /\ \E net_farm_profit \in NetFarmProfits :
        /\ op' = "calculate_self_employment_tax"
        /\ args' = [net_farm_profit |-> net_farm_profit]
        /\ result' = calculate_self_employment_tax(filing_status, net_farm_profit)
    /\ UNCHANGED <<filing_status, tax_year, assets, depreciation_schedules,
                   entities, transactions>>

CalculateIncomeTax ==
    /\ op = "idle"
    /\ \E taxable_income \in TaxableIncomes :
        /\ op' = "calculate_income_tax"
        /\ args' = [taxable_income |-> taxable_income]
        /\ result' = calculate_income_tax(filing_status, taxable_income)
    /\ UNCHANGED <<filing_status, tax_year, assets, depreciation_schedules,
                   entities, transactions>>

CalculateFarmTaxLiability ==
    /\ op = "idle"
    /\ \E total_income \in FarmIncomes, total_expenses \in {Dollars(0),
          Dollars(60000)}, depreciation \in {Dollars(0), Dollars(82858)},
          other_income \in {Dollars(0), Dollars(40000)}, itemized_deductions \in
          {Dollars(0), Dollars(35000)}, use_standard_deduction \in BOOLEAN :
        /\ op' = "calculate_farm_tax_liability"
        /\ args' = [total_income |-> total_income, total_expenses |-> total_expenses,
                    depreciation |-> depreciation, other_income |-> other_income,
                    itemized_deductions |-> itemized_deductions,
                    use_standard_deduction |-> use_standard_deduction]
        /\ result' = calculate_farm_tax_liability(filing_status, total_income,
                      total_expenses, depreciation, other_income,
                      itemized_deductions, use_standard_deduction)
    /\ UNCHANGED <<filing_status, tax_year, assets, depreciation_schedules,
                   entities, transactions>>

EstimateQuarterlyTaxes ==
    /\ op = "idle"
    /\ \E estimated_annual_tax \in AnnualTaxes, payments_made \in PaymentsMade :
        /\ op' = "estimate_quarterly_taxes"
        /\ args' = [estimated_annual_tax |-> estimated_annual_tax,
                    payments_made |-> payments_made]
        /\ result' = estimate_quarterly_taxes(estimated_annual_tax, payments_made)
    /\ UNCHANGED <<filing_status, tax_year, assets, depreciation_schedules,
                   entities, transactions>>

CalculateFarmIncomeAveraging ==
    /\ op = "idle"
    /\ \E current_year_income \in CurrentYearIncomes, prior_year_incomes \in
          PriorYearIncomes :
        /\ op' = "calculate_farm_income_averaging"
        /\ args' = [current_year_income |-> current_year_income,
                    prior_year_incomes |-> prior_year_incomes]
        /\ result' = calculate_farm_income_averaging(current_year_income,
                      prior_year_incomes)
    /\ UNCHANGED <<filing_status, tax_year, assets, depreciation_schedules,
                   entities, transactions>>

CalculateSection179 ==
    /\ op = "idle"
    /\ \E asset_cost \in AssetCosts, total_equipment_placed \in EquipmentPlaced,
          elected_amount \in ElectedAmounts :
        /\ op' = "calculate_section_179"
        /\ args' = [asset_cost |-> asset_cost, total_equipment_placed |->
                    total_equipment_placed, elected_amount |-> elected_amount]
        /\ result' = calculate_section_179(asset_cost, total_equipment_placed,
                      elected_amount)
    /\ UNCHANGED <<filing_status, tax_year, assets, depreciation_schedules,
                   entities, transactions>>

\* calculate_bonus_depreciation keeping the year of the date it was given in
\* self.tax_year.
CalculateBonusDepreciation_storing_the_year ==
    /\ op = "idle"
    /\ \E remaining_basis \in AssetCosts, placed_in_service_date \in PlacedDates \cup
          {None} :
        /\ op' = "calculate_bonus_depreciation"
        /\ args' = [remaining_basis |-> remaining_basis, placed_in_service_date |->
                    placed_in_service_date]
        /\ result' = calculate_bonus_depreciation(tax_year, remaining_basis,
                      placed_in_service_date)
        /\ tax_year' = IF placed_in_service_date = None THEN tax_year
                       ELSE YearOf(placed_in_service_date)
    /\ UNCHANGED <<filing_status, assets, depreciation_schedules, entities, transactions>>

CalculateBonusDepreciation ==
    /\ op = "idle"
    /\ \E remaining_basis \in AssetCosts, placed_in_service_date \in PlacedDates \cup
          {None} :
        /\ op' = "calculate_bonus_depreciation"
        /\ args' = [remaining_basis |-> remaining_basis, placed_in_service_date |->
                    placed_in_service_date]
        /\ result' = calculate_bonus_depreciation(tax_year, remaining_basis,
                      placed_in_service_date)
    /\ UNCHANGED <<filing_status, tax_year, assets, depreciation_schedules,
                   entities, transactions>>

CalculateMacrsDepreciation ==
    /\ op = "idle"
    /\ \E asset_basis \in {Dollars(-50000), Dollars(0), Dollars(20000),
          Dollars(100000)}, macrs_class \in MacrsClassNames, year_in_service \in
          0..MaxYearInService :
        /\ op' = "calculate_macrs_depreciation"
        /\ args' = [asset_basis |-> asset_basis, macrs_class |-> macrs_class,
                    year_in_service |-> year_in_service]
        /\ result' = calculate_macrs_depreciation(asset_basis, macrs_class,
                      year_in_service)
    /\ UNCHANGED <<filing_status, tax_year, assets, depreciation_schedules,
                   entities, transactions>>

CalculateTotalDepreciation ==
    /\ op = "idle"
    /\ \E asset_cost \in AssetCosts, macrs_class \in MacrsClassNames,
          placed_in_service_date \in {None, Date(2022), Date(2024)}, use_section_179
          \in BOOLEAN, section_179_amount \in {None, Zero, Dollars(50000)}, use_bonus
          \in BOOLEAN, total_equipment_placed \in {None, Dollars(4270000)} :
        /\ op' = "calculate_total_depreciation"
        /\ args' = [asset_cost |-> asset_cost, macrs_class |-> macrs_class,
                    placed_in_service_date |-> placed_in_service_date,
                    use_section_179 |-> use_section_179, section_179_amount |->
                    section_179_amount, use_bonus |-> use_bonus,
                    total_equipment_placed |-> total_equipment_placed]
        /\ result' = calculate_total_depreciation(tax_year, asset_cost, macrs_class,
                      placed_in_service_date, 0, use_section_179, section_179_amount,
                      use_bonus, total_equipment_placed)
    /\ UNCHANGED <<filing_status, tax_year, assets, depreciation_schedules,
                   entities, transactions>>

CalculateAnnualDepreciationSchedule ==
    /\ op = "idle"
    /\ \E asset_cost \in {Dollars(-50000), Dollars(0), Dollars(100000)}, macrs_class
          \in MacrsClassNames, placed_in_service_date \in {Date(2023), Date(2024)},
          first_year_section_179 \in {Dollars(0), Dollars(50000)}, first_year_bonus
          \in {Dollars(0), Dollars(30000), Dollars(50000)}, years_to_project \in {-1,
          0, 2, 5} :
        /\ op' = "calculate_annual_depreciation_schedule"
        /\ args' = [asset_cost |-> asset_cost, macrs_class |-> macrs_class,
                    placed_in_service_date |-> placed_in_service_date,
                    first_year_section_179 |-> first_year_section_179,
                    first_year_bonus |-> first_year_bonus, years_to_project |->
                    years_to_project]
        /\ result' = calculate_annual_depreciation_schedule(asset_cost, macrs_class,
                      placed_in_service_date, first_year_section_179,
                      first_year_bonus, years_to_project)
    /\ UNCHANGED <<filing_status, tax_year, assets, depreciation_schedules,
                   entities, transactions>>

CalculateLouisianaIncomeTax ==
    /\ op = "idle"
    /\ \E louisiana_agi \in LouisianaAgis, num_exemptions \in Counts,
          num_dependents \in Counts, federal_itemized_deductions \in
          {Dollars(0), Dollars(35000)}, use_standard_deduction \in BOOLEAN :
        /\ op' = "calculate_louisiana_income_tax"
        /\ args' = [louisiana_agi |-> louisiana_agi, num_exemptions |->
                    num_exemptions, num_dependents |-> num_dependents,
                    federal_itemized_deductions |-> federal_itemized_deductions,
                    use_standard_deduction |-> use_standard_deduction]
        /\ result' = calculate_louisiana_income_tax(filing_status, louisiana_agi,
                      num_exemptions, num_dependents, federal_itemized_deductions,
                      use_standard_deduction)
    /\ UNCHANGED <<filing_status, tax_year, assets, depreciation_schedules,
                   entities, transactions>>

CalculateLouisianaFarmTax ==
    /\ op = "idle"
    /\ \E net_farm_profit \in NetFarmProfits, other_income \in {Dollars(0),
          Dollars(40000)}, federal_se_tax_deduction \in {Dollars(0), Dollars(3532)},
          num_exemptions \in Counts, num_dependents \in Counts,
          use_standard_deduction \in BOOLEAN, federal_itemized_deductions \in
          {Dollars(0), Dollars(35000)} :
        /\ op' = "calculate_louisiana_farm_tax"
        /\ args' = [net_farm_profit |-> net_farm_profit, other_income |-> other_income,
                    federal_se_tax_deduction |-> federal_se_tax_deduction,
                    num_exemptions |-> num_exemptions, num_dependents |->
                    num_dependents, use_standard_deduction |->
                    use_standard_deduction, federal_itemized_deductions |->
                    federal_itemized_deductions]
        /\ result' = calculate_louisiana_farm_tax(filing_status, net_farm_profit,
                      other_income, federal_se_tax_deduction, num_exemptions,
                      num_dependents, use_standard_deduction,
                      federal_itemized_deductions)
    /\ UNCHANGED <<filing_status, tax_year, assets, depreciation_schedules,
                   entities, transactions>>

CalculateCombinedTax ==
    /\ op = "idle"
    /\ \E total_income \in FarmIncomes, total_expenses \in {Dollars(0),
          Dollars(60000)}, depreciation \in {Dollars(0), Dollars(82858)},
          other_income \in {Dollars(0), Dollars(40000)}, num_exemptions \in Counts,
          num_dependents \in Counts, use_standard_deduction \in BOOLEAN,
          itemized_deductions \in {Dollars(0), Dollars(35000)} :
        /\ op' = "calculate_combined_tax"
        /\ args' = [total_income |-> total_income, total_expenses |-> total_expenses,
                    depreciation |-> depreciation, other_income |-> other_income,
                    num_exemptions |-> num_exemptions, num_dependents |->
                    num_dependents, use_standard_deduction |->
                    use_standard_deduction, itemized_deductions |->
                    itemized_deductions]
        /\ result' = calculate_combined_tax(filing_status, tax_year, total_income,
                      total_expenses, depreciation, other_income, num_exemptions,
                      num_dependents, use_standard_deduction, itemized_deductions)
    /\ UNCHANGED <<filing_status, tax_year, assets, depreciation_schedules,
                   entities, transactions>>

\* FederalTaxCalculator
NextFederal ==
    \/ CalculateSelfEmploymentTax
    \/ CalculateIncomeTax
    \/ CalculateFarmTaxLiability
    \/ CalculateFarmIncomeAveraging
    \/ EstimateQuarterlyTaxes
    \/ Return

SpecFederal == Init /\ [][NextFederal]_vars

\* DepreciationCalculator
NextDepreciation ==
    \/ CalculateSection179
    \/ CalculateBonusDepreciation
    \/ CalculateMacrsDepreciation
    \/ CalculateTotalDepreciation
    \/ CalculateAnnualDepreciationSchedule
    \/ Return

InitDepreciation ==
    /\ filing_status = "married_filing_jointly"
    /\ tax_year \in TaxYears
    /\ op = "idle"
    /\ args = <<>>
    /\ result = <<>>
    /\ assets = <<>>
    /\ depreciation_schedules = <<>>
    /\ entities = <<>>
    /\ transactions = <<>>

SpecDepreciation == InitDepreciation /\ [][NextDepreciation]_vars

\* LouisianaTaxCalculator and CombinedTaxCalculator
NextLouisiana ==
    \/ CalculateLouisianaIncomeTax
    \/ CalculateLouisianaFarmTax
    \/ CalculateCombinedTax
    \/ Return

InitLouisiana ==
    /\ filing_status \in FilingStatuses
    /\ tax_year = 2024
    /\ op = "idle"
    /\ args = <<>>
    /\ result = <<>>
    /\ assets = <<>>
    /\ depreciation_schedules = <<>>
    /\ entities = <<>>
    /\ transactions = <<>>

SpecLouisiana == InitLouisiana /\ [][NextLouisiana]_vars

MaxAssets == 1

AssetPrices == {Dollars(50000)}

AssetClasses == {"3-year", "4-year"}

AssetDates == {Date(2023)}

AssetIds == 1..(MaxAssets + 1)

\* The entity that owns the assets, and the entities a caller asks about:
\* the owner and one that owns nothing.
AssetEntityIds == {1}

AskedEntityIds == {1, 2}

\* The tax years a caller asks for: from the first placed-in-service year,
\* which is before the later one, to the third year in service.
AskedTaxYears == 2023..2025

DisposalProceeds == {Zero, Dollars(50000)}

InitAssets ==
    /\ filing_status = "married_filing_jointly"
    /\ tax_year = DEFAULT_CALCULATOR_TAX_YEAR
    /\ op = "idle"
    /\ args = <<>>
    /\ result = <<>>
    /\ assets = <<>>
    /\ depreciation_schedules = <<>>
    /\ entities = <<>>
    /\ transactions = <<>>

AddAsset ==
    /\ op = "idle"
    /\ Len(assets) < MaxAssets
    /\ \E entity_id \in AssetEntityIds, purchase_price \in AssetPrices,
          purchase_date \in AssetDates,
          macrs_class \in AssetClasses, in_service_date \in {None, Date(2024)},
          auto_calculate_depreciation \in BOOLEAN, use_section_179 \in BOOLEAN,
          section_179_amount \in {None}, use_bonus \in BOOLEAN :
        \E outcome \in {add_asset(assets, depreciation_schedules, entity_id,
                           purchase_price,
                           purchase_date, macrs_class, in_service_date,
                           auto_calculate_depreciation, use_section_179,
                           section_179_amount, use_bonus)} :
           /\ op' = "add_asset"
           /\ args' = [entity_id |-> entity_id,
                       purchase_price |-> purchase_price, purchase_date |->
                       purchase_date, macrs_class |-> macrs_class,
                       in_service_date |-> in_service_date,
                       auto_calculate_depreciation |-> auto_calculate_depreciation,
                       use_section_179 |-> use_section_179, section_179_amount |->
                       section_179_amount, use_bonus |-> use_bonus]
           /\ result' = outcome.result
           /\ assets' = outcome.assets
           /\ depreciation_schedules' = outcome.depreciation_schedules
    /\ UNCHANGED <<filing_status, tax_year, entities, transactions>>

CalculateDepreciationForYear ==
    /\ op = "idle"
    /\ \E asset_id \in AssetIds, year \in AskedTaxYears :
        \E outcome \in {calculate_depreciation_for_year(assets, depreciation_schedules,
                           asset_id, year)} :
           /\ op' = "calculate_depreciation_for_year"
           /\ args' = [asset_id |-> asset_id, tax_year |-> year]
           /\ result' = outcome.result
           /\ assets' = outcome.assets
           /\ depreciation_schedules' = outcome.depreciation_schedules
    /\ UNCHANGED <<filing_status, tax_year, entities, transactions>>

DisposeAsset ==
    /\ op = "idle"
    /\ \E asset_id \in AssetIds, disposal_date \in {Date(2025)},
          disposal_proceeds \in DisposalProceeds :
        \E outcome \in {dispose_asset(assets, depreciation_schedules, asset_id,
                           disposal_date, disposal_proceeds)} :
           /\ op' = "dispose_asset"
           /\ args' = [asset_id |-> asset_id, disposal_date |-> disposal_date,
                       disposal_proceeds |-> disposal_proceeds]
           /\ result' = outcome.result
           /\ assets' = outcome.assets
           /\ depreciation_schedules' = outcome.depreciation_schedules
    /\ UNCHANGED <<filing_status, tax_year, entities, transactions>>

\* FederalTaxCalculator, LouisianaTaxCalculator and CombinedTaxCalculator
NextTaxCalculators ==
    \/ NextFederal
    \/ NextLouisiana

SpecTaxCalculators == InitLouisiana /\ [][NextTaxCalculators]_vars

MaxTransactions == 2

\* The accounting methods of the two entities on file.
EntityTables ==
    {<<[accounting_method |-> "cash"], [accounting_method |-> "accrual"]>>,
     <<[accounting_method |-> "accrual"], [accounting_method |-> "cash"]>>}

EntityIds == 1..3

TransactionCategories == {"grain_sales", "fertilizer"}

\* accounting_method as a caller passes it: omitted, or None.
AccountingMethodArgs == {DEFAULT_ACCOUNTING_METHOD, NoMethod}

InitTransactions ==
    /\ filing_status = "married_filing_jointly"
    /\ tax_year = 2024
    /\ op = "idle"
    /\ args = <<>>
    /\ result = <<>>
    /\ assets = <<>>
    /\ depreciation_schedules = <<>>
    /\ entities \in EntityTables
    /\ transactions = <<>>

AddTransaction ==
    /\ op = "idle"
    /\ Len(transactions) < MaxTransactions
    /\ \E entity_id \in DOMAIN entities, transaction_type \in {"income", "expense"},
          category \in TransactionCategories, is_capital \in BOOLEAN,
          cash_date \in {None, Date(2023)}, accrual_date \in {None, Date(2023)} :
        /\ op' = "add_transaction"
        /\ args' = [entity_id |-> entity_id, transaction_type |-> transaction_type,
                    category |-> category, is_capital |-> is_capital,
                    cash_date |-> cash_date, accrual_date |-> accrual_date]
        /\ transactions' = add_transaction(transactions, entity_id, Date(2024),
                               transaction_type, category, Dollars(1000), is_capital,
                               cash_date, accrual_date)
        /\ result' = transactions'[Len(transactions')]
    /\ UNCHANGED <<filing_status, tax_year, assets, depreciation_schedules, entities>>

GetIncomeSummary ==
    /\ op = "idle"
    /\ \E entity_id \in EntityIds, year \in {2023, 2024},
          accounting_method \in AccountingMethodArgs :
        /\ op' = "get_income_summary"
        /\ args' = [entity_id |-> entity_id, tax_year |-> year,
                    accounting_method |-> accounting_method]
        /\ result' = get_income_summary(entities, transactions, entity_id, year,
                                        accounting_method)
    /\ UNCHANGED <<filing_status, tax_year, assets, depreciation_schedules,
                   entities, transactions>>

GetExpenseSummary ==
    /\ op = "idle"
    /\ \E entity_id \in EntityIds, year \in {2023, 2024},
          accounting_method \in AccountingMethodArgs :
        /\ op' = "get_expense_summary"
        /\ args' = [entity_id |-> entity_id, tax_year |-> year,
                    accounting_method |-> accounting_method]
        /\ result' = get_expense_summary(entities, transactions, entity_id, year,
                                         accounting_method)
    /\ UNCHANGED <<filing_status, tax_year, assets, depreciation_schedules,
                   entities, transactions>>

\* TransactionManager
NextTransactions ==
    \/ AddTransaction
    \/ GetIncomeSummary
    \/ GetExpenseSummary
    \/ Return

SpecTransactions == InitTransactions /\ [][NextTransactions]_vars

\* The four calculators
NextCalculators ==
    \/ NextFederal
    \/ NextDepreciation
    \/ NextLouisiana

SpecCalculators == Init /\ [][NextCalculators]_vars

GetTotalDepreciationForEntity ==
    /\ op = "idle"
    /\ \E entity_id \in AskedEntityIds, year \in AskedTaxYears :
        /\ op' = "get_total_depreciation_for_entity"
        /\ args' = [entity_id |-> entity_id, tax_year |-> year]
        /\ result' = get_total_depreciation_for_entity(assets, depreciation_schedules,
                                                       entity_id, year)
    /\ UNCHANGED <<filing_status, tax_year, assets, depreciation_schedules,
                   entities, transactions>>

\* AssetManager
NextAssets ==
    \/ AddAsset
    \/ CalculateDepreciationForYear
    \/ DisposeAsset
    \/ GetTotalDepreciationForEntity
    \/ Return

SpecAssets == InitAssets /\ [][NextAssets]_vars

Next ==
    \/ NextFederal
    \/ NextDepreciation
    \/ NextLouisiana
    \/ NextAssets
    \/ NextTransactions

Spec == Init /\ [][Next]_vars

---------------------------------------------------------------------------
(* Properties of the calculators.                                          *)

\* The part of amount that lies in [bracket.min, bracket.max).
AmountInBracket(amount, bracket) == Sub(Min(bracket.max, amount), bracket.min)

\* The breakdown entry of a bracket for amount.
BreakdownEntry(amount, bracket) ==
    [min |-> bracket.min, max |-> bracket.max, rate |-> bracket.rate,
     taxable_amount |-> AmountInBracket(amount, bracket),
     tax |-> Times(AmountInBracket(amount, bracket), bracket.rate)]

\* The entries of the brackets i.. whose lower bound is below amount, in order.
RECURSIVE Breakdown(_, _, _)
Breakdown(brackets, amount, i) ==
    IF i > Len(brackets) THEN <<>>
    ELSE (IF Lt(brackets[i].min, amount)
          THEN <<BreakdownEntry(amount, brackets[i])>>
          ELSE <<>>) \o Breakdown(brackets, amount, i + 1)

\* The tax amounts of a breakdown.
TaxesOf(entries) == [i \in DOMAIN entries |-> entries[i].tax]

\* C1: calculate_farm_tax_liability returns net_farm_profit = total_income -
\* total_expenses - depreciation (a loss passes through), agi = net_farm_profit +
\* other_income - deductible_se_tax, taxable_income = max(0, agi - deduction) with
\* the filing status's standard deduction or the supplied itemized figure, and
\* total_federal_tax = bracket income tax on taxable_income + the full total_se_tax.
C1_FarmTaxLiability ==
    op = "calculate_farm_tax_liability" =>
        LET net == Sub(Sub(args.total_income, args.total_expenses), args.depreciation)
            se == result.self_employment_tax
            deduction ==
                IF args.use_standard_deduction
                THEN CASE filing_status = "single" -> Dollars(14600)
                       [] filing_status = "married_filing_jointly" -> Dollars(29200)
                       [] filing_status = "married_filing_separately" -> Dollars(14600)
                       [] filing_status = "head_of_household" -> Dollars(21900)
                ELSE args.itemized_deductions
            taxable == IF Lt(Sub(result.agi, deduction), Zero)
                       THEN Zero
                       ELSE Sub(result.agi, deduction)
            schedule == IF filing_status = "married_filing_jointly"
                        THEN FEDERAL_TAX_BRACKETS_MFJ_2024
                        ELSE FEDERAL_TAX_BRACKETS_SINGLE_2024
        IN /\ result.net_farm_profit = net
           /\ se.net_farm_profit = net
           /\ Lt(net, Zero) => se.total_se_tax = Zero /\ se.deductible_se_tax = Zero
           /\ result.agi = Sub(Add(net, args.other_income), se.deductible_se_tax)
           /\ result.deduction_amount = deduction
           /\ result.taxable_income = taxable
           /\ result.income_tax.total_tax = Sum(TaxesOf(Breakdown(schedule, taxable, 1)))
           /\ result.total_federal_tax = Add(result.income_tax.total_tax, se.total_se_tax)

\* C1 witness: an itemized-deduction call with self-employment tax and income tax due.
C1_Witness ==
    /\ op = "calculate_farm_tax_liability"
    /\ ~args.use_standard_deduction
    /\ Gt(args.itemized_deductions, Zero)
    /\ Gt(result.self_employment_tax.total_se_tax, Zero)
    /\ Gt(result.income_tax.total_tax, Zero)

\* C2: for taxable income > 0 and the married_filing_jointly and single schedules,
\* calculate_income_tax lists exactly the brackets whose lower bound is below the
\* income, taxes min(upper, income) - lower in each at its rate, and returns the
\* sum of the listed taxes; married_filing_jointly at 100,000 gives 12,106.
C2_IncomeTaxBrackets ==
    (/\ op = "calculate_income_tax"
     /\ Gt(args.taxable_income, Zero)
     /\ filing_status \in {"married_filing_jointly", "single"}) =>
        LET schedule == IF filing_status = "married_filing_jointly"
                        THEN FEDERAL_TAX_BRACKETS_MFJ_2024
                        ELSE FEDERAL_TAX_BRACKETS_SINGLE_2024
        IN /\ result.brackets_used = Breakdown(schedule, args.taxable_income, 1)
           /\ result.total_tax = Sum(TaxesOf(result.brackets_used))
           /\ (filing_status = "married_filing_jointly"
                 /\ args.taxable_income = Dollars(100000))
              => result.total_tax = Dollars(12106)

\* C2 witness: the 100,000 scenario, which reaches into three brackets.
C2_Witness ==
    /\ op = "calculate_income_tax"
    /\ filing_status = "married_filing_jointly"
    /\ args.taxable_income = Dollars(100000)
    /\ Len(result.brackets_used) = 3
    /\ result.total_tax = Dollars(12106)

BonusRateOfYear(y) ==
    IF y <= 2022 THEN Rate(100, 100)
    ELSE IF y = 2023 THEN Rate(80, 100)
    ELSE Rate(60, 100)

\* r1 <= r2 for two rates.
RateLe(r1, r2) == r1.num * r2.den <= r2.num * r1.den

\* The whole recovery years of a class.
WholeYears(macrs_class) == MACRS_CLASSES[macrs_class].recovery_period_tenths \div 10

\* The classes that have a half-year rate table.
TableClasses == {c \in DOMAIN MACRS_CLASSES : WholeYears(c) \in DOMAIN MACRS_DEPRECIATION_RATES_HY}

\* The rate of a class in a year of service >= 1: the table's entry, 0 past the
\* table, and straight-line over the whole recovery years without a table.
RateInYear(macrs_class, y) ==
    IF macrs_class \in TableClasses
    THEN IF y <= Len(MACRS_DEPRECIATION_RATES_HY[WholeYears(macrs_class)])
         THEN Rate(MACRS_DEPRECIATION_RATES_HY[WholeYears(macrs_class)][y], 10000)
         ELSE Rate(0, 1)
    ELSE Rate(1, WholeYears(macrs_class))

\* The year whose bonus rate a call with these arguments uses.
BonusYear == IF args.placed_in_service_date # None
             THEN YearOf(args.placed_in_service_date)
             ELSE tax_year

\* The largest Section 179 deduction for a total of equipment placed in service.
MaxAvailable(total_equipment_placed) ==
    LET placed == IF total_equipment_placed = None THEN Zero ELSE total_equipment_placed
        excess == Sub(placed, Dollars(3050000))
        reduced == Sub(Dollars(1220000), IF IsNeg(excess) THEN Zero ELSE excess)
    IN IF IsNeg(reduced) THEN Zero ELSE reduced

\* C4 as claimed: bonus = (cost - section 179) x bonus rate whenever bonus is
\* elected and MACRS = (cost - section 179 - bonus) x year-1 rate, whatever the
\* basis left by the previous step.
C4_AsClaimed ==
    (/\ op = "calculate_total_depreciation"
     /\ ~Raised(result)
     /\ args.macrs_class \in DOMAIN MACRS_CLASSES) =>
        LET after_179 == Sub(args.asset_cost, result.section_179)
            after_bonus == Sub(after_179, result.bonus_depreciation)
        IN /\ ~args.use_section_179 => result.section_179 = Zero
           /\ result.bonus_depreciation =
                IF args.use_bonus
                THEN Times(after_179, BonusRateOfYear(BonusYear))
                ELSE Zero
           /\ result.macrs_depreciation =
                Times(after_bonus, RateInYear(args.macrs_class, 1))
           /\ result.total_depreciation =
                Add(Add(result.section_179, result.bonus_depreciation),
                    result.macrs_depreciation)
           /\ result.remaining_basis = Sub(args.asset_cost, result.total_depreciation)

\* C4: calculate_total_depreciation applies Section 179, then bonus, then year-1
\* MACRS, each step only when the basis left by the previous step is > 0:
\* bonus = (cost - section 179) x bonus rate if elected, MACRS = (cost - section
\* 179 - bonus) x year-1 rate, total = their sum, remaining_basis = cost - total;
\* a step that is not elected or finds no positive basis contributes 0 and leaves
\* the basis unchanged. Cost 100,000, 7-year, 50,000 elected, 60% bonus gives
\* bonus 30,000, MACRS 2,858, total 82,858.
C4_TotalDepreciationOrder ==
    (op = "calculate_total_depreciation" /\ ~Raised(result)) =>
        LET cost == args.asset_cost
            wanted == IF args.section_179_amount # None
                      THEN Min(args.section_179_amount, cost)
                      ELSE cost
            after_179 == Sub(cost, result.section_179)
            after_bonus == Sub(after_179, result.bonus_depreciation)
        IN /\ result.section_179 =
                IF args.use_section_179 /\ Gt(cost, Zero)
                THEN Min(wanted, MaxAvailable(args.total_equipment_placed))
                ELSE Zero
           /\ result.bonus_depreciation =
                IF args.use_bonus /\ Gt(after_179, Zero)
                THEN Times(after_179, BonusRateOfYear(BonusYear))
                ELSE Zero
           /\ result.macrs_depreciation =
                IF Gt(after_bonus, Zero)
                THEN Times(after_bonus, RateInYear(args.macrs_class, 1))
                ELSE Zero
           /\ result.total_depreciation =
                Add(Add(result.section_179, result.bonus_depreciation),
                    result.macrs_depreciation)
           /\ result.remaining_basis = Sub(cost, result.total_depreciation)
           /\ (/\ cost = Dollars(100000)
               /\ args.macrs_class = "7-year"
               /\ args.use_section_179
               /\ args.section_179_amount = Dollars(50000)
               /\ args.total_equipment_placed = None
               /\ args.use_bonus
               /\ BonusYear >= 2024)
              => /\ result.bonus_depreciation = Dollars(30000)
                 /\ result.macrs_depreciation = Dollars(2858)
                 /\ result.total_depreciation = Dollars(82858)

\* C4 witness: the 100,000 scenario with all three steps applied.
C4_Witness ==
    /\ op = "calculate_total_depreciation"
    /\ args.asset_cost = Dollars(100000)
    /\ args.macrs_class = "7-year"
    /\ args.use_section_179
    /\ args.use_bonus
    /\ result.section_179 = Dollars(50000)
    /\ result.bonus_depreciation = Dollars(30000)
    /\ result.macrs_depreciation = Dollars(2858)
    /\ result.total_depreciation = Dollars(82858)
    /\ result.remaining_basis = Dollars(17142)

\* C5 as claimed: for any cost, section_179 + bonus + MACRS <= cost, with
\* equality exactly when remaining_basis is 0.
C5_AsClaimed ==
    (op = "calculate_total_depreciation" /\ ~Raised(result)) =>
        LET taken == Add(Add(result.section_179, result.bonus_depreciation),
                         result.macrs_depreciation)
        IN /\ Le(taken, args.asset_cost)
           /\ taken = args.asset_cost <=> result.remaining_basis = Zero

\* C5: for any input, section_179 + bonus_depreciation + macrs_depreciation of
\* calculate_total_depreciation is at most max(asset_cost, 0), and equals
\* asset_cost exactly when remaining_basis is 0; a negative cost is not
\* depreciated at all and is returned as the remaining basis.
C5_NeverExceedsCost ==
    (op = "calculate_total_depreciation" /\ ~Raised(result)) =>
        LET taken == Add(Add(result.section_179, result.bonus_depreciation),
                         result.macrs_depreciation)
            cost == args.asset_cost
        IN /\ Le(taken, IF IsNeg(cost) THEN Zero ELSE cost)
           /\ taken = cost <=> result.remaining_basis = Zero
           /\ IsNeg(cost) => taken = Zero /\ result.remaining_basis = cost

\* C5 witness: a positive cost recovered in full in the first year.
C5_Witness ==
    /\ op = "calculate_total_depreciation"
    /\ Gt(args.asset_cost, Zero)
    /\ args.total_equipment_placed # None
    /\ ~Raised(result)
    /\ Gt(result.bonus_depreciation, Zero)
    /\ result.total_depreciation = args.asset_cost
    /\ result.remaining_basis = Zero

\* C6: calculate_section_179 has max_available = max(0, 1,220,000 - max(0,
\* total_equipment_placed - 3,050,000)), section_179_amount = min(elected amount
\* if one was given else asset_cost, asset_cost, max_available) and
\* remaining_basis = asset_cost - section_179_amount; an elected amount of 0 is
\* an election of 0, not an omitted one.
C6_Section179 ==
    op = "calculate_section_179" =>
        LET cost == args.asset_cost
            wanted == IF args.elected_amount # None THEN args.elected_amount ELSE cost
            max_available == MaxAvailable(args.total_equipment_placed)
        IN /\ result.max_available = max_available
           /\ result.section_179_amount = Min(Min(wanted, cost), max_available)
           /\ result.remaining_basis = Sub(cost, result.section_179_amount)
           /\ (args.elected_amount = Zero /\ Gt(cost, Zero)) =>
                /\ result.section_179_amount = Zero
                /\ result.remaining_basis = cost

\* C6 witness: an election of 0 on a positive cost under a partly phased-out limit.
C6_Witness ==
    /\ op = "calculate_section_179"
    /\ args.elected_amount = Zero
    /\ Gt(args.asset_cost, Zero)
    /\ result.max_available = Dollars(770000)
    /\ result.section_179_amount = Zero

\* C7: calculate_bonus_depreciation takes its rate from the placed-in-service
\* year whenever a date is supplied, not from the calculator's tax year: 100%
\* for 2022 or earlier, 80% for 2023, 60% for 2024, never more for a later year
\* than for an earlier one; bonus_amount = remaining_basis x rate.
C7_BonusRateByPlacedYear ==
    op = "calculate_bonus_depreciation" =>
        LET placed == args.placed_in_service_date
            year == IF placed # None THEN YearOf(placed) ELSE tax_year
        IN /\ year <= 2022 => result.bonus_rate = Rate(100, 100)
           /\ year = 2023 => result.bonus_rate = Rate(80, 100)
           /\ year = 2024 => result.bonus_rate = Rate(60, 100)
           /\ \A later \in PlacedDates :
                year <= YearOf(later) =>
                    RateLe(calculate_bonus_depreciation(tax_year, args.remaining_basis, later).bonus_rate, result.bonus_rate)
           /\ result.bonus_amount = Times(args.remaining_basis, result.bonus_rate)
           /\ result.remaining_basis = Sub(args.remaining_basis, result.bonus_amount)

\* C7 witness: an asset placed in service in 2022 on a 2024 calculator.
C7_Witness ==
    /\ op = "calculate_bonus_depreciation"
    /\ tax_year = 2024
    /\ args.placed_in_service_date = Date(2022)
    /\ Gt(args.remaining_basis, Zero)
    /\ result.bonus_rate = Rate(100, 100)
    /\ result.bonus_amount = args.remaining_basis

\* C8: calculate_macrs_depreciation on a 3-, 5-, 7-, 10-, 15- or 20-year class:
\* a basis <= 0 gives 0 and fully_depreciated (for any class name, which is not
\* looked up); a positive basis in year y of the half-year table gives basis x
\* rate[y], not flagged; a positive basis in a year past the table gives 0,
\* flagged fully_depreciated.
C8_MacrsTableLookup ==
    op = "calculate_macrs_depreciation" =>
        LET basis == args.asset_basis
            y == args.year_in_service
            years == MACRS_CLASSES[args.macrs_class].recovery_period_tenths \div 10
            rates == MACRS_DEPRECIATION_RATES_HY[years]
        IN /\ Le(basis, Zero) =>
                /\ ~Raised(result)
                /\ result.macrs_amount = Zero
                /\ result.fully_depreciated
           /\ (/\ Gt(basis, Zero)
               /\ args.macrs_class \in {"3-year", "5-year", "7-year", "10-year",
                                        "15-year", "20-year"}
               /\ y >= 1) =>
                /\ ~Raised(result)
                /\ y <= Len(rates) =>
                    /\ result.macrs_amount = Quo(Scale(basis, rates[y]), 10000)
                    /\ ~result.fully_depreciated
                /\ y > Len(rates) =>
                    /\ result.macrs_amount = Zero
                    /\ result.fully_depreciated

\* C8 witness: the last year of the 7-year table, which still depreciates.
C8_Witness ==
    /\ op = "calculate_macrs_depreciation"
    /\ args.macrs_class = "7-year"
    /\ args.year_in_service = 8
    /\ args.asset_basis = Dollars(100000)
    /\ result.macrs_amount = Dollars(4460)
    /\ ~result.fully_depreciated

\* The book value left after the first i entries of a schedule.
RECURSIVE BookValueAfter(_, _, _)
BookValueAfter(cost, schedule, i) ==
    IF i = 0 THEN cost
    ELSE Sub(BookValueAfter(cost, schedule, i - 1), schedule[i].total_depreciation)

\* C9: the schedule of calculate_annual_depreciation_schedule has entries for
\* years of service 1..k in calendar years placed year + i - 1; Section 179 and
\* bonus appear only in entry 1; every entry's MACRS is computed on the one basis
\* cost - section 179 - bonus, never on a declining balance; k is at most
\* years_to_project (default whole recovery years + 1); and no entry follows one
\* after which the running book value is <= 0.
C9_AnnualSchedule ==
    (op = "calculate_annual_depreciation_schedule" /\ ~Raised(result)) =>
        LET schedule == result.schedule
            k == Len(schedule)
            placed_year == YearOf(args.placed_in_service_date)
            basis == Sub(Sub(args.asset_cost, args.first_year_section_179),
                         args.first_year_bonus)
            limit == IF args.years_to_project = -1
                     THEN WholeYears(args.macrs_class) + 1
                     ELSE args.years_to_project
        IN /\ k <= limit
           /\ \A i \in 1..k :
                /\ schedule[i].year_in_service = i
                /\ schedule[i].year = placed_year + i - 1
                /\ schedule[i].section_179 =
                     IF i = 1 THEN args.first_year_section_179 ELSE Zero
                /\ schedule[i].bonus_depreciation =
                     IF i = 1 THEN args.first_year_bonus ELSE Zero
                /\ schedule[i].macrs_depreciation =
                     IF Gt(basis, Zero)
                     THEN Times(basis, RateInYear(args.macrs_class, i))
                     ELSE Zero
                /\ schedule[i].total_depreciation =
                     Add(Add(schedule[i].section_179, schedule[i].bonus_depreciation),
                         schedule[i].macrs_depreciation)
                /\ i < k => Gt(BookValueAfter(args.asset_cost, schedule, i), Zero)

\* C9 witness: a 5-year asset with both first-year elections, projected by
\* default, whose schedule runs through the whole rate table.
C9_Witness ==
    /\ op = "calculate_annual_depreciation_schedule"
    /\ args.macrs_class = "5-year"
    /\ args.years_to_project = -1
    /\ args.first_year_section_179 = Dollars(50000)
    /\ args.first_year_bonus = Dollars(30000)
    /\ ~Raised(result)
    /\ Len(result.schedule) = 6
    /\ result.schedule[2].section_179 = Zero
    /\ result.schedule[2].macrs_depreciation = Dollars(6400)

\* C10: calculate_louisiana_income_tax takes the status's Louisiana standard
\* deduction or the federal itemized amount, total_exemptions = num_exemptions x
\* 4,500 + num_dependents x 1,000, taxable income = max(0, AGI - deduction -
\* exemptions), the tax of the three brackets 1.85% to 12,500, 3.5% to 50,000 and
\* 4.25% above, and effective_rate = tax / AGI for AGI > 0, otherwise 0.
C10_LouisianaIncomeTax ==
    op = "calculate_louisiana_income_tax" =>
        LET agi == args.louisiana_agi
            deduction ==
                IF args.use_standard_deduction
                THEN CASE filing_status = "single" -> Dollars(4500)
                       [] filing_status = "married_filing_jointly" -> Dollars(9000)
                       [] filing_status = "married_filing_separately" -> Dollars(4500)
                       [] filing_status = "head_of_household" -> Dollars(4500)
                ELSE args.federal_itemized_deductions
            exemptions == Add(Scale(Dollars(4500), args.num_exemptions),
                              Scale(Dollars(1000), args.num_dependents))
            left == Sub(Sub(agi, deduction), exemptions)
            taxable == IF IsNeg(left) THEN Zero ELSE left
            first == Min(taxable, Dollars(12500))
            second == Sub(Min(Max(taxable, Dollars(12500)), Dollars(50000)),
                          Dollars(12500))
            third == Sub(Max(taxable, Dollars(50000)), Dollars(50000))
        IN /\ result.deduction_amount = deduction
           /\ result.total_exemptions = exemptions
           /\ result.taxable_income = taxable
           /\ result.total_tax =
                Add(Add(Quo(Scale(first, 185), 10000), Quo(Scale(second, 35), 1000)),
                    Quo(Scale(third, 425), 10000))
           /\ result.total_tax = Sum(TaxesOf(result.brackets_used))
           /\ result.effective_rate =
                IF Gt(agi, Zero) THEN Quotient(result.total_tax, agi) ELSE ZeroQuotient

\* C10 witness: a return with dependents taxed in all three brackets.
C10_Witness ==
    /\ op = "calculate_louisiana_income_tax"
    /\ args.use_standard_deduction
    /\ args.num_exemptions > 0
    /\ args.num_dependents > 0
    /\ Len(result.brackets_used) = 3
    /\ Gt(result.total_tax, Zero)
    /\ result.effective_rate = Quotient(result.total_tax, args.louisiana_agi)

\* C11: calculate_combined_tax computes the federal result first and passes its
\* net_farm_profit and deductible_se_tax to the state calculation, so the state
\* AGI equals the federal AGI reported; total_tax_liability = total_federal_tax
\* + total_louisiana_tax; combined_effective_rate = total_tax_liability /
\* federal AGI, and 0 when the federal AGI is <= 0.
C11_CombinedTax ==
    op = "calculate_combined_tax" =>
        LET federal == result.federal_tax
            state == result.louisiana_tax
            net == Sub(Sub(args.total_income, args.total_expenses), args.depreciation)
        IN /\ federal.net_farm_profit = net
           /\ state.net_farm_profit = net
           /\ state.federal_se_tax_deduction = federal.self_employment_tax.deductible_se_tax
           /\ state.louisiana_agi = federal.agi
           /\ state.tax_calculation.louisiana_agi = federal.agi
           /\ result.agi = federal.agi
           /\ result.total_federal_tax = federal.total_federal_tax
           /\ result.total_louisiana_tax = state.tax_calculation.total_tax
           /\ result.total_tax_liability =
                Add(result.total_federal_tax, result.total_louisiana_tax)
           /\ result.combined_effective_rate =
                IF Gt(federal.agi, Zero)
                THEN Quotient(result.total_tax_liability, federal.agi)
                ELSE ZeroQuotient

\* C11 witness: a profitable year with self-employment tax, federal income tax
\* and Louisiana tax all due.
C11_Witness ==
    /\ op = "calculate_combined_tax"
    /\ Gt(result.federal_tax.self_employment_tax.deductible_se_tax, Zero)
    /\ Gt(result.federal_tax.income_tax.total_tax, Zero)
    /\ Gt(result.total_louisiana_tax, Zero)
    /\ result.louisiana_tax.louisiana_agi = result.agi
    /\ result.combined_effective_rate.den = result.agi

\* C16: a negative number of exemptions or of dependents passed to
\* calculate_louisiana_income_tax, calculate_louisiana_farm_tax or
\* calculate_combined_tax is rejected with an error before any tax figure is
\* computed.
C16_NegativeCountsRejected ==
    (/\ op \in {"calculate_louisiana_income_tax", "calculate_louisiana_farm_tax",
                "calculate_combined_tax"}
     /\ (args.num_exemptions < 0 \/ args.num_dependents < 0)) =>
        Raised(result)


---------------------------------------------------------------------------
(* AssetManager: disposal and the order of the years                       *)

\* C12: once dispose_asset has succeeded for an asset, a call of
\* calculate_depreciation_for_year for that asset and a year with no stored
\* result creates no depreciation schedule and leaves the asset's
\* accumulated_depreciation and current_book_value as they were.
C12_DisposalTerminatesDepreciation ==
    [][(/\ op = "idle"
        /\ op' = "calculate_depreciation_for_year"
        /\ args'.asset_id \in DOMAIN assets
        /\ ~assets[args'.asset_id].active
        /\ query_schedule(depreciation_schedules, args'.asset_id, args'.tax_year) = None)
       => (/\ depreciation_schedules' = depreciation_schedules
           /\ assets'[args'.asset_id].accumulated_depreciation =
                  assets[args'.asset_id].accumulated_depreciation
           /\ assets'[args'.asset_id].current_book_value =
                  assets[args'.asset_id].current_book_value)]_vars

\* C13: calculate_depreciation_for_year for an asset and year that already
\* have a stored schedule fails, and leaves the schedules and the asset's
\* accumulated_depreciation and current_book_value unchanged.
C13_RecomputationFails ==
    [][(/\ op = "idle"
        /\ op' = "calculate_depreciation_for_year"
        /\ query_schedule(depreciation_schedules, args'.asset_id, args'.tax_year) # None)
       => (/\ Raised(result')
           /\ depreciation_schedules' = depreciation_schedules
           /\ assets' = assets)]_vars

\* The tax years that have a schedule for an asset.
ScheduledYears(schedule_rows, asset_id) ==
    {schedule_rows[i].tax_year :
        i \in {j \in DOMAIN schedule_rows : schedule_rows[j].asset_id = asset_id}}

\* The scheduled years of an asset are its placed-in-service year and the
\* years after it, none left out.
GapFree(schedule_rows, asset) ==
    \A y \in ScheduledYears(schedule_rows, asset.id) :
        /\ y >= YearOf(asset.in_service_date)
        /\ y = YearOf(asset.in_service_date) \/ (y - 1) \in ScheduledYears(schedule_rows, asset.id)

\* A call of calculate_depreciation_for_year for a stored asset and a year
\* before its placed-in-service year, or a later year in service whose prior
\* year has no schedule.
OutOfOrder(asset_rows, schedule_rows, asset_id, year) ==
    /\ asset_id \in DOMAIN asset_rows
    /\ \/ year < YearOf(asset_rows[asset_id].in_service_date)
       \/ /\ year > YearOf(asset_rows[asset_id].in_service_date)
          /\ query_schedule(schedule_rows, asset_id, year - 1) = None

\* C14: calculate_depreciation_for_year for a year before the asset's
\* placed-in-service year, or for a second or later year in service with no
\* schedule stored for the year before, raises an error, creates no schedule
\* and leaves the asset unchanged; and after every operation the years that
\* have a schedule for an asset are a gap-free run from its placed-in-service
\* year.
C14_YearsInOrder ==
    [][/\ (/\ op = "idle"
           /\ op' = "calculate_depreciation_for_year"
           /\ OutOfOrder(assets, depreciation_schedules, args'.asset_id, args'.tax_year))
          => (/\ Raised(result')
              /\ depreciation_schedules' = depreciation_schedules
              /\ assets' = assets)
       /\ \A a \in DOMAIN assets' : GapFree(depreciation_schedules', assets'[a])]_vars

\* A request for the third year of an asset whose second year has no
\* schedule has been refused, with the first year's schedule in place.
C14_Witness ==
    /\ op = "calculate_depreciation_for_year"
    /\ Raised(result)
    /\ args.asset_id \in DOMAIN assets
    /\ args.tax_year = YearOf(assets[args.asset_id].in_service_date) + 2
    /\ ScheduledYears(depreciation_schedules, args.asset_id) = {YearOf(assets[args.asset_id].in_service_date)}

\* C15: with a recovery class that is not in MACRS_CLASSES,
\* calculate_macrs_depreciation, calculate_total_depreciation,
\* calculate_annual_depreciation_schedule and add_asset with auto-calculation
\* raise an error whatever the cost and the elections are, and add_asset
\* stores no asset.
C15_UnknownClassIsAnError ==
    [][(/\ op = "idle"
        /\ \/ op' \in {"calculate_macrs_depreciation", "calculate_total_depreciation",
                       "calculate_annual_depreciation_schedule"}
           \/ op' = "add_asset" /\ args'.auto_calculate_depreciation
        /\ args'.macrs_class \notin DOMAIN MACRS_CLASSES)
       => (/\ Raised(result')
           /\ assets' = assets
           /\ depreciation_schedules' = depreciation_schedules)]_vars

\* C20: dispose_asset of a stored asset returns gain_loss = disposal_proceeds
\* minus the asset's current book value, with is_gain true exactly when the
\* proceeds exceed the book value; a sale at book value returns gain_loss 0
\* and is_gain false; the asset becomes inactive, and its book value and
\* accumulated depreciation stay as they were.
C20_DisposalGainLoss ==
    [][(/\ op = "idle"
        /\ op' = "dispose_asset"
        /\ args'.asset_id \in DOMAIN assets)
       => LET before == assets[args'.asset_id]
              after == assets'[args'.asset_id]
              proceeds == args'.disposal_proceeds
          IN /\ ~Raised(result')
             /\ result'.gain_loss = Sub(proceeds, before.current_book_value)
             /\ result'.is_gain = Gt(proceeds, before.current_book_value)
             /\ (proceeds = before.current_book_value
                    => result'.gain_loss = Zero /\ result'.is_gain = FALSE)
             /\ after.active = FALSE
             /\ after.current_book_value = before.current_book_value
             /\ after.accumulated_depreciation = before.accumulated_depreciation
             /\ depreciation_schedules' = depreciation_schedules]_vars

\* A partly depreciated asset has been sold for more than the book value it
\* still has.
C20_Witness ==
    /\ op = "dispose_asset"
    /\ ~Raised(result)
    /\ result.is_gain
    /\ Gt(assets[args.asset_id].accumulated_depreciation, Zero)
    /\ Gt(result.book_value, Zero)
    /\ Lt(result.gain_loss, result.proceeds)
    /\ ~assets[args.asset_id].active

---------------------------------------------------------------------------
(* Degenerate inputs, monotonicity and the calculators' fields             *)

\* A float quotient whose value is 0.
QuotientIsZero(q) == q.num = Zero /\ q.den # Zero

\* A bracket evaluation that found nothing to tax.
ZeroTax(calc) ==
    /\ calc.total_tax = Zero
    /\ QuotientIsZero(calc.effective_rate)
    /\ calc.brackets_used = <<>>

\* C17: no call raises on degenerate inputs.  A taxable amount <= 0 gives
\* total tax 0, effective rate 0 and an empty bracket breakdown from the
\* federal and from the Louisiana evaluator; effective_total_rate,
\* the Louisiana effective_rate and combined_effective_rate are 0.0 when the
\* AGI they divide by is <= 0; estimate_quarterly_taxes recommends a next
\* payment of 0 when no quarter remains.
C17_DegenerateInputs ==
    /\ op \in {"calculate_income_tax", "calculate_farm_tax_liability",
               "calculate_louisiana_income_tax", "calculate_louisiana_farm_tax",
               "calculate_combined_tax", "estimate_quarterly_taxes"}
          => ~Raised(result)
    /\ (op = "calculate_income_tax" /\ Le(args.taxable_income, Zero))
          => ZeroTax(result)
    /\ op = "calculate_farm_tax_liability"
          => /\ Le(Sub(result.agi, result.deduction_amount), Zero) => ZeroTax(result.income_tax)
             /\ Le(result.agi, Zero) => result.effective_total_rate = ZeroQuotient
    /\ op = "calculate_louisiana_income_tax"
          => /\ Le(Sub(Sub(args.louisiana_agi, result.deduction_amount),
                       result.total_exemptions), Zero) => ZeroTax(result)
             /\ Le(args.louisiana_agi, Zero) => result.effective_rate = ZeroQuotient
    /\ op = "calculate_louisiana_farm_tax"
          => /\ result.tax_calculation.taxable_income = Zero
                    => ZeroTax(result.tax_calculation)
             /\ Le(result.louisiana_agi, Zero)
                    => result.tax_calculation.effective_rate = ZeroQuotient
    /\ op = "calculate_combined_tax"
          => /\ result.federal_tax.taxable_income = Zero
                    => ZeroTax(result.federal_tax.income_tax)
             /\ result.louisiana_tax.tax_calculation.taxable_income = Zero
                    => ZeroTax(result.louisiana_tax.tax_calculation)
             /\ Le(result.agi, Zero)
                    => /\ result.combined_effective_rate = ZeroQuotient
                       /\ result.federal_tax.effective_total_rate = ZeroQuotient
                       /\ result.louisiana_tax.tax_calculation.effective_rate = ZeroQuotient
    /\ (op = "estimate_quarterly_taxes" /\ quarters_remaining(result.payments_made) <= 0)
          => result.recommended_next_payment = Zero

\* Four payments were made, tax is still due, and no quarter remains.
C17_Witness ==
    /\ op = "estimate_quarterly_taxes"
    /\ args.payments_made # None
    /\ quarters_remaining(args.payments_made) = 0
    /\ Gt(result.remaining_due, Zero)
    /\ result.recommended_next_payment = Zero

\* C18: under the federal married_filing_jointly and single schedules and
\* under the Louisiana schedule the total tax does not decrease when the
\* taxable income grows, and in every result the taxes of the brackets in
\* brackets_used add up to total_tax.
C18_MonotoneAndSummed ==
    /\ (op = "calculate_income_tax" /\ filing_status \in {"married_filing_jointly", "single"})
          => \A b \in TaxableIncomes :
                Le(args.taxable_income, b)
                    => Le(result.total_tax,
                          calculate_income_tax(filing_status, b).total_tax)
    /\ op = "calculate_louisiana_income_tax"
          => \A b \in LouisianaAgis :
                LET other == calculate_louisiana_income_tax(filing_status, b,
                                 args.num_exemptions, args.num_dependents,
                                 args.federal_itemized_deductions,
                                 args.use_standard_deduction)
                IN Le(result.taxable_income, other.taxable_income)
                       => Le(result.total_tax, other.total_tax)
    /\ op \in {"calculate_income_tax", "calculate_louisiana_income_tax"}
          => Sum(TaxesOf(result.brackets_used)) = result.total_tax
    /\ op = "calculate_farm_tax_liability"
          => Sum(TaxesOf(result.income_tax.brackets_used)) = result.income_tax.total_tax
    /\ op = "calculate_louisiana_farm_tax"
          => Sum(TaxesOf(result.tax_calculation.brackets_used)) =
                 result.tax_calculation.total_tax

\* A joint return taxed in three brackets or more, with a larger income in
\* reach that is taxed more.
C18_Witness ==
    /\ op = "calculate_income_tax"
    /\ filing_status = "married_filing_jointly"
    /\ Len(result.brackets_used) >= 3
    /\ Sum(TaxesOf(result.brackets_used)) = result.total_tax
    /\ \E b \in TaxableIncomes :
          /\ Lt(args.taxable_income, b)
          /\ Lt(result.total_tax, calculate_income_tax(filing_status, b).total_tax)

\* C19: no call on FederalTaxCalculator, LouisianaTaxCalculator,
\* CombinedTaxCalculator or DepreciationCalculator changes the calculator's
\* fields filing_status and tax_year, the only state a result is computed
\* from besides the arguments and the constant tables.
C19_NoHiddenState ==
    [][filing_status' = filing_status /\ tax_year' = tax_year]_vars

\* calculate_bonus_depreciation has answered for a date in another year
\* than the calculator's tax_year.
C19_Witness ==
    /\ op = "calculate_bonus_depreciation"
    /\ args.placed_in_service_date # None
    /\ YearOf(args.placed_in_service_date) # tax_year
    /\ ~Raised(result)

---------------------------------------------------------------------------
(* Income averaging and quarterly estimates                                *)

\* t is x / n for an integer n >= 1, up to the last digit the amounts keep.
IsQuotientBy(t, x, n) ==
    LET rest == Sub(x, Scale(t, n))
        digit == [i \in 1..NL |-> IF i = 1 THEN n ELSE 0]
    IN IF IsNeg(x) THEN Lt(Neg(digit), rest) /\ Le(rest, Zero)
       ELSE Le(Zero, rest) /\ Lt(rest, digit)

\* C21: calculate_farm_income_averaging raises an error unless exactly three
\* prior-year incomes are given; with three, average_prior_income is their
\* mean, elected_farm_income = max(0, current_year_income - average_prior_income)
\* and allocated_per_year = elected_farm_income / 3; 90,000 against three
\* times 30,000 gives 30,000, 60,000 and 20,000.
C21_FarmIncomeAveraging ==
    op = "calculate_farm_income_averaging" =>
        IF Len(args.prior_year_incomes) # 3 THEN Raised(result)
        ELSE /\ ~Raised(result)
             /\ IsQuotientBy(result.average_prior_income,
                    Add(Add(args.prior_year_incomes[1], args.prior_year_incomes[2]),
                        args.prior_year_incomes[3]), 3)
             /\ result.elected_farm_income =
                    Max(Zero, Sub(args.current_year_income, result.average_prior_income))
             /\ IsQuotientBy(result.allocated_per_year, result.elected_farm_income, 3)
             /\ (/\ args.current_year_income = Dollars(90000)
                 /\ args.prior_year_incomes =
                        <<Dollars(30000), Dollars(30000), Dollars(30000)>>)
                    => /\ result.average_prior_income = Dollars(30000)
                       /\ result.elected_farm_income = Dollars(60000)
                       /\ result.allocated_per_year = Dollars(20000)

\* The scenario of 90,000 against three prior years of 30,000 has returned.
C21_Witness ==
    /\ op = "calculate_farm_income_averaging"
    /\ args.current_year_income = Dollars(90000)
    /\ args.prior_year_incomes = <<Dollars(30000), Dollars(30000), Dollars(30000)>>
    /\ result.allocated_per_year = Dollars(20000)

\* The quarters of a list of four payment entries that are unpaid: the entry
\* is zero, or not a payment at all.
UnpaidQuarters(payments_made) == {i \in 1..4 : Le(payments_made[i], Zero)}

\* C22: for a list of four payment entries estimate_quarterly_taxes returns
\* quarterly_amount = estimated_annual_tax / 4, remaining_due =
\* max(0, estimated_annual_tax - the sum of the entries) and
\* recommended_next_payment = remaining_due divided by the number of unpaid
\* quarters, or 0 if no quarter is unpaid.
C22_QuarterlyEstimate ==
    (op = "estimate_quarterly_taxes" /\ args.payments_made # None) =>
        /\ IsQuotientBy(result.quarterly_amount, args.estimated_annual_tax, 4)
        /\ result.remaining_due =
               Max(Zero, Sub(args.estimated_annual_tax,
                   Add(Add(args.payments_made[1], args.payments_made[2]),
                       Add(args.payments_made[3], args.payments_made[4]))))
        /\ IF UnpaidQuarters(args.payments_made) = {}
           THEN result.recommended_next_payment = Zero
           ELSE IsQuotientBy(result.recommended_next_payment, result.remaining_due,
                             Cardinality(UnpaidQuarters(args.payments_made)))

\* The second and fourth quarter are unpaid, tax is still due, and each of
\* the two is asked for half of it.
C22_Witness ==
    /\ op = "estimate_quarterly_taxes"
    /\ args.payments_made # None
    /\ UnpaidQuarters(args.payments_made) = {2, 4}
    /\ Gt(result.remaining_due, Zero)
    /\ Scale(result.recommended_next_payment, 2) = result.remaining_due

---------------------------------------------------------------------------
(* TransactionManager: what the tax calculation is given                   *)

\* The non-capital transactions of a type that belong to an entity and
\* whose date under the entity's own accounting method falls in a year.
OwnMethodTransactions(entity_id, transaction_type, year) ==
    SelectSeq(transactions,
        LAMBDA t : /\ t.entity_id = entity_id
                   /\ t.transaction_type = transaction_type
                   /\ ~t.is_capital_expense
                   /\ YearOf(IF entities[entity_id].accounting_method = "cash"
                             THEN t.cash_date ELSE t.accrual_date) = year)

\* The amounts of a list of transactions that are in a category, summed.
CategoryTotal(transaction_list, category) ==
    Sum(AmountsOf(SelectSeq(transaction_list, LAMBDA t : t.category = category)))

\* A summary's total and per-category sums are those of a list of
\* transactions.
SummaryIs(total, categories, transaction_list) ==
    /\ total = Sum(AmountsOf(transaction_list))
    /\ \A c \in TransactionCategories :
          IF c \in DOMAIN categories
          THEN categories[c] = CategoryTotal(transaction_list, c)
          ELSE \A i \in DOMAIN transaction_list : transaction_list[i].category # c

\* C23: the totals get_income_summary and get_expense_summary return for an
\* entity on file and a tax year, called without an accounting method as the
\* tax calculate command calls them, are the sums per category and overall of
\* the entity's non-capital transactions whose cash_date (cash entity) or
\* accrual_date (accrual entity) falls in the year.
C23_TotalsByOwnMethod ==
    /\ (/\ op = "get_income_summary"
        /\ args.accounting_method = DEFAULT_ACCOUNTING_METHOD
        /\ args.entity_id \in DOMAIN entities)
          => /\ ~Raised(result)
             /\ SummaryIs(result.total_income, result.by_category,
                    OwnMethodTransactions(args.entity_id, "income", args.tax_year))
    /\ (/\ op = "get_expense_summary"
        /\ args.accounting_method = DEFAULT_ACCOUNTING_METHOD
        /\ args.entity_id \in DOMAIN entities)
          => /\ ~Raised(result)
             /\ SummaryIs(result.total_expenses, result.by_category,
                    OwnMethodTransactions(args.entity_id, "expense", args.tax_year))

---------------------------------------------------------------------------
(* AssetManager: the book value over the years                             *)

\* The schedule stored for an asset and a year, or None.
ScheduleOf(asset_id, year) == query_schedule(depreciation_schedules, asset_id, year)

\* C24: once the book value a schedule starts from is <= 0, that year records
\* total depreciation 0; for every asset accumulated_depreciation is at most
\* purchase_price, and no stored ending_book_value is negative.
C24_FullRecoveryIsTerminal ==
    /\ \A i \in DOMAIN depreciation_schedules :
          /\ ~IsNeg(depreciation_schedules[i].ending_book_value)
          /\ Le(depreciation_schedules[i].beginning_book_value, Zero)
                => depreciation_schedules[i].total_depreciation = Zero
    /\ \A a \in DOMAIN assets :
          Le(assets[a].accumulated_depreciation, assets[a].purchase_price)

\* C25: a schedule of a second or later year in service N records Section
\* 179 and bonus 0 and MACRS = (purchase price - the Section 179 and bonus
\* amounts of the asset's year-1 schedule) x rate(N), whether the year-1
\* schedule came from add_asset or from calculate_depreciation_for_year.
C25_LaterYearsOnYearOneBasis ==
    \A i \in DOMAIN depreciation_schedules :
        LET schedule == depreciation_schedules[i]
            asset == assets[schedule.asset_id]
            placed_year == YearOf(asset.in_service_date)
            year_one == ScheduleOf(schedule.asset_id, placed_year)
        IN schedule.tax_year > placed_year =>
              /\ schedule.section_179_deduction = Zero
              /\ schedule.bonus_depreciation = Zero
              /\ schedule.macrs_depreciation =
                    calculate_macrs_depreciation(
                        Sub(Sub(asset.purchase_price, year_one.section_179_deduction),
                            year_one.bonus_depreciation),
                        asset.macrs_class,
                        schedule.tax_year - placed_year + 1).macrs_amount

---------------------------------------------------------------------------
(* DepreciationCalculator: the classes without a half-year table           *)

\* The classes that fall back to straight-line depreciation.
StraightLineClasses == DOMAIN MACRS_CLASSES \ TableClasses

\* C26: for a class absent from the half-year table (27.5-year, 39-year) and
\* a positive basis, calculate_macrs_depreciation uses the rate
\* 1 / recovery_period (1/27.5, 1/39) in every year of service.
C26_StraightLineRate ==
    (/\ op = "calculate_macrs_depreciation"
     /\ args.macrs_class \in StraightLineClasses
     /\ Gt(args.asset_basis, Zero)) =>
        LET tenths == MACRS_CLASSES[args.macrs_class].recovery_period_tenths
        IN /\ ~Raised(result)
           /\ result.depreciation_rate.num * tenths = result.depreciation_rate.den * 10
           /\ result.macrs_amount = Times(args.asset_basis, Rate(10, tenths))

\* The total_depreciation of the entries first..last of a projected schedule,
\* summed by halves.
RECURSIVE DepreciationOver(_, _, _)
DepreciationOver(schedule, first, last) ==
    IF first > last THEN Zero
    ELSE IF first = last THEN schedule[first].total_depreciation
    ELSE Add(DepreciationOver(schedule, first, (first + last) \div 2),
             DepreciationOver(schedule, (first + last) \div 2 + 1, last))

\* C29: the projection with years_to_project omitted recovers the whole cost:
\* for every class, cost > 0 and 0 <= Section 179 + bonus <= cost, the
\* total_depreciation of the entries sums to the cost and the last entry's
\* ending_book_value is 0.
C29_DefaultProjectionRecoversCost ==
    (/\ op = "calculate_annual_depreciation_schedule"
     /\ args.years_to_project = -1
     /\ args.macrs_class \in DOMAIN MACRS_CLASSES
     /\ Gt(args.asset_cost, Zero)
     /\ Le(Zero, Add(args.first_year_section_179, args.first_year_bonus))
     /\ Le(Add(args.first_year_section_179, args.first_year_bonus), args.asset_cost)) =>
        LET schedule == result.schedule
        IN /\ ~Raised(result)
           /\ Len(schedule) >= 1
           /\ DepreciationOver(schedule, 1, Len(schedule)) = args.asset_cost
           /\ schedule[Len(schedule)].ending_book_value = Zero

---------------------------------------------------------------------------
(* The two bracket walks                                                   *)

\* A schedule that starts at 0, is contiguous and ascending and ends with an
\* unbounded bracket.
WellFormedSchedule(brackets) ==
    /\ Len(brackets) >= 1
    /\ brackets[1].min = Zero
    /\ brackets[Len(brackets)].max = Infinity
    /\ \A i \in DOMAIN brackets : Lt(brackets[i].min, brackets[i].max)
    /\ \A i \in 1..(Len(brackets) - 1) : brackets[i].max = brackets[i + 1].min

\* The bounds between the brackets of the schedules tried, and the rates of
\* the first, second, ... bracket (ascending, or descending to a zero rate).
ScheduleCuts == {Dollars(12500), Dollars(94300), Dollars(100000)}

ScheduleRates ==
    {<<Rate(10, 100), Rate(185, 10000), Rate(37, 100), Rate(425, 1000)>>,
     <<Rate(35, 100), Rate(12, 100), Rate(12, 100), Rate(0, 1)>>}

\* The amounts of a set in ascending order.
Ascending(amounts) ==
    CHOOSE cuts \in [1..Cardinality(amounts) -> amounts] :
        \A i, j \in DOMAIN cuts : i < j => Lt(cuts[i], cuts[j])

\* The schedule with the given bounds between its brackets.
ScheduleOver(cuts, rates) ==
    [i \in 1..(Len(cuts) + 1) |->
        Bracket(IF i = 1 THEN Zero ELSE cuts[i - 1],
                IF i = Len(cuts) + 1 THEN Infinity ELSE cuts[i],
                rates[i])]

BracketSchedules ==
    {brackets \in {ScheduleOver(Ascending(amounts), rates) :
                       amounts \in SUBSET ScheduleCuts, rates \in ScheduleRates}
                  \cup {FEDERAL_TAX_BRACKETS_MFJ_2024, FEDERAL_TAX_BRACKETS_SINGLE_2024,
                        LA_TAX_BRACKETS_2024} :
        WellFormedSchedule(brackets)}

\* The federal walk of calculate_income_tax over a given schedule.
FederalWalk(brackets, taxable_income) ==
    IF Le(taxable_income, Zero) THEN [total_tax |-> Zero, brackets_used |-> <<>>]
    ELSE income_tax_loop(brackets, taxable_income, 1, Zero, <<>>, taxable_income)

\* The state walk of calculate_louisiana_income_tax over a given schedule.
StateWalk(brackets, taxable_income) ==
    la_tax_loop(brackets, taxable_income, 1, Zero, <<>>)

\* Two walks with the same total tax and the same taxable amount per bracket.
SameWalk(w1, w2) ==
    /\ w1.total_tax = w2.total_tax
    /\ Len(w1.brackets_used) = Len(w2.brackets_used)
    /\ \A i \in DOMAIN w1.brackets_used :
          /\ w1.brackets_used[i].min = w2.brackets_used[i].min
          /\ w1.brackets_used[i].taxable_amount = w2.brackets_used[i].taxable_amount

\* C27: for a taxable amount >= 0 the federal walk and the state walk return
\* the same total tax and the same per-bracket taxable amounts on every
\* well-formed schedule: the result of calculate_income_tax is what the state
\* walk gives on the federal schedule, the result of
\* calculate_louisiana_income_tax is what the federal walk gives on the
\* Louisiana schedule, and the two walks agree on every schedule tried.
C27_SameBracketWalk ==
    /\ (op = "calculate_income_tax" /\ Le(Zero, args.taxable_income)) =>
          /\ SameWalk(result, StateWalk(get_tax_brackets(filing_status),
                                        args.taxable_income))
          /\ \A brackets \in BracketSchedules :
                SameWalk(FederalWalk(brackets, args.taxable_income),
                         StateWalk(brackets, args.taxable_income))
    /\ op = "calculate_louisiana_income_tax" =>
          /\ SameWalk(result, FederalWalk(LA_TAX_BRACKETS_2024, result.taxable_income))
          /\ \A brackets \in BracketSchedules :
                SameWalk(FederalWalk(brackets, result.taxable_income),
                         StateWalk(brackets, result.taxable_income))

\* C27 witness: a married couple's 100,000 walked through three federal
\* brackets, the third taking 5,700, with every schedule tried well formed.
C27_Witness ==
    /\ op = "calculate_income_tax"
    /\ args.taxable_income = Dollars(100000)
    /\ Len(result.brackets_used) = 3
    /\ result.brackets_used[3].taxable_amount = Dollars(5700)
    /\ Cardinality(BracketSchedules) = 19

---------------------------------------------------------------------------
(* AssetManager: conservation of the book value                            *)

\* The stored schedules of an asset.
SchedulesOf(asset_id) ==
    SelectSeq(depreciation_schedules, LAMBDA schedule : schedule.asset_id = asset_id)

\* The total_depreciation column of a list of schedules.
TotalsOf(schedule_list) ==
    [i \in DOMAIN schedule_list |-> schedule_list[i].total_depreciation]

\* C28: for every asset current_book_value = purchase_price -
\* accumulated_depreciation, accumulated_depreciation is the sum of
\* total_depreciation over the asset's stored schedules, and every schedule's
\* beginning_book_value is the ending_book_value of the asset's schedule of
\* the year before, or purchase_price when there is none.
C28_BookValueConservation ==
    /\ \A a \in DOMAIN assets :
          /\ assets[a].current_book_value =
                Sub(assets[a].purchase_price, assets[a].accumulated_depreciation)
          /\ assets[a].accumulated_depreciation = Sum(TotalsOf(SchedulesOf(a)))
    /\ \A i \in DOMAIN depreciation_schedules :
          LET schedule == depreciation_schedules[i]
              previous == ScheduleOf(schedule.asset_id, schedule.tax_year - 1)
          IN schedule.beginning_book_value =
                IF previous = None THEN assets[schedule.asset_id].purchase_price
                ELSE previous.ending_book_value

\* C28 witness: an asset with three stored years, depreciated in each, whose
\* first year was computed by calculate_depreciation_for_year.
C28_Witness ==
    \E a \in DOMAIN assets :
        /\ Len(SchedulesOf(a)) = 3
        /\ \A i \in 1..3 : Gt(SchedulesOf(a)[i].total_depreciation, Zero)
        /\ assets[a].section_179_amount = Zero
        /\ SchedulesOf(a)[1].section_179_deduction # Zero

\* The schedules of a year that belong to the assets of an entity that are
\* active in the table asset_rows.
CountedSchedules(asset_rows, schedule_rows, entity_id, year) ==
    SelectSeq(schedule_rows,
              LAMBDA schedule : /\ schedule.tax_year = year
                                /\ asset_rows[schedule.asset_id].entity_id = entity_id
                                /\ asset_rows[schedule.asset_id].active)

\* The totals returned are the column sums of the counted schedules.
TotalsAre(totals, counted) ==
    /\ totals.section_179 =
          Sum([i \in DOMAIN counted |-> counted[i].section_179_deduction])
    /\ totals.bonus_depreciation =
          Sum([i \in DOMAIN counted |-> counted[i].bonus_depreciation])
    /\ totals.macrs_depreciation =
          Sum([i \in DOMAIN counted |-> counted[i].macrs_depreciation])
    /\ totals.total_depreciation =
          Add(Add(totals.section_179, totals.bonus_depreciation),
              totals.macrs_depreciation)

====
